---- MODULE Spec2Model ----
(***************************************************************************)
(* State/effect coordination engine of float-speech-to-text (src/fstt.py): *)
(* the immutable State, the pure Reducer, the Store, the six effect        *)
(* handlers and the AsyncTaskRunner.                                       *)
(*                                                                         *)
(* Two specifications:                                                     *)
(*   ReducerSpec  Reducer.reduce applied to every sequence of events       *)
(*                (any event, any field values, in any phase);             *)
(*   Spec         the full system: Store.dispatch on the main thread with  *)
(*                its effect handlers, worker tasks and the main loop's    *)
(*                idle queue.                                              *)
(***************************************************************************)
EXTENDS Integers, Sequences, FiniteSets, TLC

VARIABLES
    state,      \* Store._state: the current snapshot
    last,       \* ReducerSpec: the last call of Reducer.reduce, [action, prev]
    sync_mode,  \* AsyncTaskRunner._sync_mode
    stack,      \* main thread: the nested Store.dispatch calls in progress
    workers,    \* worker threads started by run_async, task not finished yet
    idle,       \* GLib.idle_add queue: completion callbacks waiting for the main loop
    copied,     \* calls of clipboard.copy_standard / copy_primary made so far
    saved,      \* content of settings.json as last written by _save_settings
    raised,     \* the call whose exception left the outermost Store.dispatch, if any
    lock,       \* StoreSpec: Store._lock, 0 or the thread holding it
    threads,    \* StoreSpec: per thread, its nested Store.dispatch calls in progress
    subs,       \* StoreSpec: Store._subs
    closures,   \* StoreSpec: the unsubscribe closures subscribe has returned
    budget,     \* StoreSpec: per thread, the calls of dispatch it may still make
    pure,       \* SmartSpec: the last call of a pure function, its arguments and result
    shown,      \* StoreSpec: the snapshot of the latest GLib.idle_add(fn, next_state)
    speech      \* RealSpec, AudioSpec: the SpeechService (capture flag, buffer, lock, threads)

\* the variables only StoreSpec changes
store_vars == <<lock, threads, subs, closures, budget>>

vars == <<state, last, sync_mode, stack, workers, idle, copied, saved, raised,
          store_vars, pure, shown, speech>>

(***************************************************************************)
(* Bounds of the model.                                                    *)
(***************************************************************************)
\* sessions a run may start (UIStart from IDLE is cut off at this session_id)
MaxSession == 2

(***************************************************************************)
(* Optional[str].  A string is a sequence of symbols: single characters    *)
(* for the texts smart_process looks into, one opaque symbol for a message *)
(* the code only passes on.  None is distinct from the empty string.       *)
(***************************************************************************)
None == [some |-> FALSE, s |-> <<>>]

Str(s) == [some |-> TRUE, s |-> s]

\* Python truthiness of an Optional[str]: None and "" are both false
Truthy(o) == o.some /\ o.s # <<>>

\* Python's `a or b` on Optional[str]
PyOr(a, b) == IF Truthy(a) THEN a ELSE b

EmptyStr == Str(<<>>)

\* texts the speech recogniser and the LLM return in the model
TextHi == Str(<<"H", "i", ".">>)

TextOk == Str(<<"O", "k", " ", "o", "k", ".", ".">>)

\* str(e) of a collaborator exception with a message
ErrBoom == Str(<<"boom">>)

ErrEmptyAsr == Str(<<"empty asr">>)

ErrEmptyLlm == Str(<<"empty llm">>)

ErrRestartFailed == Str(<<"restart failed">>)

ErrStartFailed == Str(<<"failed to start recording">>)

MonitorName == Str(<<"HDMI-1">>)

(***************************************************************************)
(* Phase, State and the events.                                            *)
(***************************************************************************)
IDLE == "idle"

RECORDING == "recording"

PROCESSING == "processing"

POST_PROCESSING == "post_processing"

RESTARTING == "restarting"

Phase == {IDLE, RECORDING, PROCESSING, POST_PROCESSING, RESTARTING}

\* the five configuration fields the program is started with
Configs ==
    [llm_enabled : BOOLEAN,
     auto_paste : BOOLEAN,
     copy_method : {"clipboard", "primary"},
     smart_text_processing : BOOLEAN,
     smart_short_phrase_words : {1, 3}]

\* State(...) as built in create_with_defaults: the defaults of the dataclass
\* with the configuration fields filled in
InitialState(c) ==
    [phase |-> IDLE,
     llm_enabled |-> c.llm_enabled,
     auto_paste |-> c.auto_paste,
     copy_method |-> c.copy_method,
     smart_text_processing |-> c.smart_text_processing,
     smart_short_phrase_words |-> c.smart_short_phrase_words,
     recognized_text |-> None,
     processed_text |-> None,
     error |-> None,
     session_id |-> 0,
     current_monitor_name |-> None]

UIStart == [type |-> "UIStart"]

UIStop == [type |-> "UIStop"]

UIRestart == [type |-> "UIRestart"]

UIToggleLLM == [type |-> "UIToggleLLM"]

ASRDone(session_id, text, error) ==
    [type |-> "ASRDone", session_id |-> session_id, text |-> text, error |-> error]

LLMDone(session_id, text, error) ==
    [type |-> "LLMDone", session_id |-> session_id, text |-> text, error |-> error]

RestartDone(session_id, success, error) ==
    [type |-> "RestartDone", session_id |-> session_id, success |-> success,
     error |-> error]

MonitorChanged(monitor_name) ==
    [type |-> "MonitorChanged", monitor_name |-> monitor_name]

\* a value that is none of the eight Action types
NotAnAction == [type |-> "object"]

(***************************************************************************)
(* Reducer                                                                 *)
(***************************************************************************)
\* handle_ui_start that forgets to clear processed_text
handle_ui_start_keeps_processed(st, action) ==
    IF st.phase # IDLE
    THEN st
    ELSE [st EXCEPT !.phase = RECORDING,
                    !.error = None,
                    !.recognized_text = None,
                    !.session_id = st.session_id + 1]

handle_ui_start(st, action) ==
    IF st.phase # IDLE
    THEN st
    ELSE [st EXCEPT !.phase = RECORDING,
                    !.error = None,
                    !.recognized_text = None,
                    !.processed_text = None,
                    !.session_id = st.session_id + 1]

\* handle_ui_stop that forgets to clear error
handle_ui_stop_keeps_error(st, action) ==
    IF st.phase # RECORDING
    THEN st
    ELSE [st EXCEPT !.phase = PROCESSING]

handle_ui_stop(st, action) ==
    IF st.phase # RECORDING
    THEN st
    ELSE [st EXCEPT !.phase = PROCESSING, !.error = None]

\* handle_ui_restart that starts a new session
handle_ui_restart_new_session(st, action) ==
    IF st.phase # RECORDING
    THEN st
    ELSE [st EXCEPT !.phase = RESTARTING,
                    !.error = None,
                    !.session_id = st.session_id + 1]

handle_ui_restart(st, action) ==
    IF st.phase # RECORDING
    THEN st
    ELSE [st EXCEPT !.phase = RESTARTING, !.error = None]

\* handle_ui_toggle_llm that also clears the error, as the other UI handlers do
handle_ui_toggle_llm_clears_error(st, action) ==
    [st EXCEPT !.llm_enabled = ~st.llm_enabled, !.error = None]

handle_ui_toggle_llm(st, action) ==
    [st EXCEPT !.llm_enabled = ~st.llm_enabled]

\* handle_asr_done that goes to POST_PROCESSING whatever llm_enabled is
handle_asr_done_always_llm(st, action) ==
    IF action.session_id # st.session_id
    THEN st
    ELSE IF Truthy(action.error) \/ ~Truthy(action.text)
    THEN [st EXCEPT !.phase = IDLE,
                    !.error = PyOr(action.error, ErrEmptyAsr),
                    !.recognized_text = None]
    ELSE [st EXCEPT !.recognized_text = action.text,
                    !.phase = POST_PROCESSING,
                    !.error = None]

handle_asr_done(st, action) ==
    IF action.session_id # st.session_id
    THEN st
    ELSE IF Truthy(action.error) \/ ~Truthy(action.text)
    THEN [st EXCEPT !.phase = IDLE,
                    !.error = PyOr(action.error, ErrEmptyAsr),
                    !.recognized_text = None]
    ELSE [st EXCEPT !.recognized_text = action.text,
                    !.phase = IF st.llm_enabled THEN POST_PROCESSING ELSE IDLE,
                    !.error = None]

\* handle_llm_done without the session check
handle_llm_done_unfenced(st, action) ==
    IF Truthy(action.error) \/ ~Truthy(action.text)
    THEN [st EXCEPT !.phase = IDLE,
                    !.error = PyOr(action.error, ErrEmptyLlm),
                    !.processed_text = None]
    ELSE [st EXCEPT !.processed_text = action.text,
                    !.phase = IDLE,
                    !.error = None]

\* handle_llm_done that clears recognized_text on failure, as handle_asr_done does
handle_llm_done_drops_recognized(st, action) ==
    IF action.session_id # st.session_id
    THEN st
    ELSE IF Truthy(action.error) \/ ~Truthy(action.text)
    THEN [st EXCEPT !.phase = IDLE,
                    !.error = PyOr(action.error, ErrEmptyLlm),
                    !.processed_text = None,
                    !.recognized_text = None]
    ELSE [st EXCEPT !.processed_text = action.text,
                    !.phase = IDLE,
                    !.error = None]

handle_llm_done(st, action) ==
    IF action.session_id # st.session_id
    THEN st
    ELSE IF Truthy(action.error) \/ ~Truthy(action.text)
    THEN [st EXCEPT !.phase = IDLE,
                    !.error = PyOr(action.error, ErrEmptyLlm),
                    !.processed_text = None]
    ELSE [st EXCEPT !.processed_text = action.text,
                    !.phase = IDLE,
                    !.error = None]

\* handle_restart_done that takes the event only in RESTARTING
handle_restart_done_phase_checked(st, action) ==
    IF action.session_id # st.session_id \/ st.phase # RESTARTING
    THEN st
    ELSE IF action.success
    THEN [st EXCEPT !.phase = RECORDING,
                    !.error = None,
                    !.recognized_text = None,
                    !.processed_text = None]
    ELSE [st EXCEPT !.phase = IDLE,
                    !.error = PyOr(action.error, ErrRestartFailed)]

\* handle_restart_done that stores the event's error without a default
handle_restart_done_no_default(st, action) ==
    IF action.session_id # st.session_id
    THEN st
    ELSE IF action.success
    THEN [st EXCEPT !.phase = RECORDING,
                    !.error = None,
                    !.recognized_text = None,
                    !.processed_text = None]
    ELSE [st EXCEPT !.phase = IDLE,
                    !.error = action.error]

handle_restart_done(st, action) ==
    IF action.session_id # st.session_id
    THEN st
    ELSE IF action.success
    THEN [st EXCEPT !.phase = RECORDING,
                    !.error = None,
                    !.recognized_text = None,
                    !.processed_text = None]
    ELSE [st EXCEPT !.phase = IDLE,
                    !.error = PyOr(action.error, ErrRestartFailed)]

handle_monitor_changed(st, action) ==
    [st EXCEPT !.current_monitor_name = action.monitor_name]

\* reduce without its last line, `return state`: Python then returns None
reduce_without_last_return(st, action) ==
    CASE action.type = "UIStart" -> handle_ui_start(st, action)
      [] action.type = "UIStop" -> handle_ui_stop(st, action)
      [] action.type = "UIRestart" -> handle_ui_restart(st, action)
      [] action.type = "UIToggleLLM" -> handle_ui_toggle_llm(st, action)
      [] action.type = "ASRDone" -> handle_asr_done(st, action)
      [] action.type = "LLMDone" -> handle_llm_done(st, action)
      [] action.type = "RestartDone" -> handle_restart_done(st, action)
      [] action.type = "MonitorChanged" -> handle_monitor_changed(st, action)
      [] OTHER -> None

reduce(st, action) ==
    CASE action.type = "UIStart" -> handle_ui_start(st, action)
      [] action.type = "UIStop" -> handle_ui_stop(st, action)
      [] action.type = "UIRestart" -> handle_ui_restart(st, action)
      [] action.type = "UIToggleLLM" -> handle_ui_toggle_llm(st, action)
      [] action.type = "ASRDone" -> handle_asr_done(st, action)
      [] action.type = "LLMDone" -> handle_llm_done(st, action)
      [] action.type = "RestartDone" -> handle_restart_done(st, action)
      [] action.type = "MonitorChanged" -> handle_monitor_changed(st, action)
      [] OTHER -> st

(***************************************************************************)
(* The conditions under which the effect handlers act on a dispatched      *)
(* (action, prev, next).                                                   *)
(***************************************************************************)
\* StartRecordingEffect.handle calls speech.start()
StartRecordingTrigger(action, prev, next) ==
    action.type = "UIStart" /\ prev.phase = IDLE /\ next.phase = RECORDING

ConfigOf(st) ==
    <<st.llm_enabled, st.auto_paste, st.copy_method, st.smart_text_processing,
      st.smart_short_phrase_words>>

\* ASREffect's condition without the check of the previous phase
ASRTrigger_any_prev(action, prev, next) ==
    action.type = "UIStop" /\ next.phase = PROCESSING

\* ASREffect.handle runs stop_and_recognize through the async runner
ASRTrigger(action, prev, next) ==
    action.type = "UIStop" /\ prev.phase = RECORDING /\ next.phase = PROCESSING

\* RestartEffect.handle runs stop / sleep / start through the async runner
RestartTrigger(action, prev, next) ==
    action.type = "UIRestart" /\ prev.phase = RECORDING /\ next.phase = RESTARTING

\* LLMEffect's condition without the check of llm_enabled
LLMTrigger_ignores_setting(action, prev, next) ==
    /\ action.type = "ASRDone"
    /\ action.session_id = next.session_id
    /\ Truthy(action.text)

\* LLMEffect.handle runs post_processing.process(action.text) through the
\* async runner
LLMTrigger(action, prev, next) ==
    /\ action.type = "ASRDone"
    /\ action.session_id = next.session_id
    /\ next.llm_enabled
    /\ Truthy(action.text)

\* settings_changed without the comparison of llm_enabled
settings_changed_without_llm_enabled(prev, next) ==
    \/ prev.auto_paste # next.auto_paste
    \/ prev.copy_method # next.copy_method
    \/ prev.smart_text_processing # next.smart_text_processing
    \/ prev.smart_short_phrase_words # next.smart_short_phrase_words

\* SettingsPersistenceEffect.handle: settings_changed
settings_changed(prev, next) == ConfigOf(prev) # ConfigOf(next)

(***************************************************************************)
(* FinalizeEffect                                                          *)
(***************************************************************************)
IsSpace(c) == c \in {" ", "\n", "\t"}

\* len(text.split()): the maximal runs of characters that are not whitespace
WordCount(s) ==
    Cardinality({i \in 1..Len(s) :
                    ~IsSpace(s[i]) /\ (i = 1 \/ IsSpace(s[i - 1]))})

\* str.lower() on the characters of the model
LowerChar(c) ==
    CASE c = "H" -> "h"
      [] c = "O" -> "o"
      [] OTHER -> c

Lower(s) == [i \in 1..Len(s) |-> LowerChar(s[i])]

\* str.rstrip("."): every trailing period is removed
RECURSIVE RStripDots(_)
RStripDots(s) ==
    IF Len(s) > 0 /\ s[Len(s)] = "."
    THEN RStripDots(SubSeq(s, 1, Len(s) - 1))
    ELSE s

smart_process(st, text) ==
    IF ~st.smart_text_processing
    THEN text
    ELSE IF WordCount(text.s) <= st.smart_short_phrase_words
    THEN Str(RStripDots(Lower(text.s)))
    ELSE Str(text.s \o <<" ", "\n">>)

\* copy_paste that schedules the paste only after a copy that succeeded
paste_scheduled_if_copied(st, ok) == st.auto_paste /\ ok

\* copy_paste: GLib.timeout_add(delay_ms, paste) is called `if
\* state.auto_paste`; the answer ok of the copy call is not looked at
paste_scheduled(st, ok) == st.auto_paste

\* the call copy_paste makes on the clipboard, with the session it is made
\* for, the answer ok of the clipboard, and whether the delayed paste is
\* scheduled after it
copy_paste(st, text, ok) ==
    [session_id |-> st.session_id,
     call |-> IF st.copy_method = "clipboard" THEN "copy_standard" ELSE "copy_primary",
     text |-> text,
     ok |-> ok,
     paste |-> paste_scheduled(st, ok)]

\* FinalizeEffect.handle that prefers recognized_text to the text of LLMDone
FinalizeEffect_calls_prefers_recognized(action, prev, next, ok) ==
    IF /\ action.type = "ASRDone"
       /\ action.session_id = next.session_id
       /\ ~next.llm_enabled
    THEN IF Truthy(action.text) /\ next.phase = IDLE
         THEN <<copy_paste(next, smart_process(next, action.text), ok)>>
         ELSE <<>>
    ELSE IF /\ action.type = "LLMDone"
            /\ action.session_id = next.session_id
            /\ next.phase = IDLE
            /\ Truthy(PyOr(next.recognized_text, action.text))
    THEN <<copy_paste(next, smart_process(next, PyOr(next.recognized_text, action.text)), ok)>>
    ELSE <<>>

\* FinalizeEffect.handle that finalizes after LLMDone only while the LLM is
\* still enabled
FinalizeEffect_calls_only_if_enabled(action, prev, next, ok) ==
    IF /\ action.type = "ASRDone"
       /\ action.session_id = next.session_id
       /\ ~next.llm_enabled
    THEN IF Truthy(action.text) /\ next.phase = IDLE
         THEN <<copy_paste(next, smart_process(next, action.text), ok)>>
         ELSE <<>>
    ELSE IF /\ action.type = "LLMDone"
            /\ action.session_id = next.session_id
            /\ next.llm_enabled
            /\ next.phase = IDLE
            /\ Truthy(PyOr(action.text, next.recognized_text))
    THEN <<copy_paste(next, smart_process(next, PyOr(action.text, next.recognized_text)), ok)>>
    ELSE <<>>

\* FinalizeEffect.handle whose first case does not look at llm_enabled
FinalizeEffect_calls_after_every_asr(action, prev, next, ok) ==
    IF /\ action.type = "ASRDone"
       /\ action.session_id = next.session_id
    THEN IF Truthy(action.text)
         THEN <<copy_paste(next, smart_process(next, action.text), ok)>>
         ELSE <<>>
    ELSE IF /\ action.type = "LLMDone"
            /\ action.session_id = next.session_id
            /\ next.phase = IDLE
            /\ Truthy(PyOr(action.text, next.recognized_text))
    THEN <<copy_paste(next, smart_process(next, PyOr(action.text, next.recognized_text)), ok)>>
    ELSE <<>>

\* FinalizeEffect.handle: the copies it makes for (action, prev, next), a
\* sequence of none or one, when the clipboard answers ok
FinalizeEffect_calls(action, prev, next, ok) ==
    IF /\ action.type = "ASRDone"
       /\ action.session_id = next.session_id
       /\ ~next.llm_enabled
    THEN IF Truthy(action.text) /\ next.phase = IDLE
         THEN <<copy_paste(next, smart_process(next, action.text), ok)>>
         ELSE <<>>
    ELSE IF /\ action.type = "LLMDone"
            /\ action.session_id = next.session_id
            /\ next.phase = IDLE
            /\ Truthy(PyOr(action.text, next.recognized_text))
    THEN <<copy_paste(next, smart_process(next, PyOr(action.text, next.recognized_text)), ok)>>
    ELSE <<>>

\* the same with a clipboard that reports success
FinalizeEffect_copies(action, prev, next) ==
    FinalizeEffect_calls(action, prev, next, TRUE)

(***************************************************************************)
(* ReducerSpec: Reducer.reduce as a pure function.  The first state is any *)
(* State of the bounded domain, and every step applies one event, whatever *)
(* its fields, to the state the previous step returned.                    *)
(***************************************************************************)
\* the two configurations ReducerSpec starts from: the defaults of
\* AppSettings, and one that differs from them in every field
DefaultConfig ==
    [llm_enabled |-> TRUE, auto_paste |-> TRUE, copy_method |-> "clipboard",
     smart_text_processing |-> FALSE, smart_short_phrase_words |-> 3]

OtherConfig ==
    [llm_enabled |-> FALSE, auto_paste |-> FALSE, copy_method |-> "primary",
     smart_text_processing |-> TRUE, smart_short_phrase_words |-> 1]

ReducerStates ==
    {[InitialState(c) EXCEPT !.phase = p,
                             !.recognized_text = r,
                             !.processed_text = t,
                             !.error = e,
                             !.session_id = n] :
        c \in {DefaultConfig, OtherConfig},
        p \in Phase,
        r \in {None, TextHi},
        t \in {None, TextOk},
        e \in {None, ErrBoom},
        n \in 0..MaxSession}

ReducerEvents ==
    {UIStart, UIStop, UIRestart, UIToggleLLM, NotAnAction}
    \cup {ASRDone(n, t, e) :
            n \in 0..MaxSession, t \in {None, EmptyStr, TextHi},
            e \in {None, EmptyStr, ErrBoom}}
    \cup {LLMDone(n, t, e) :
            n \in 0..MaxSession, t \in {None, EmptyStr, TextOk},
            e \in {None, EmptyStr, ErrBoom}}
    \cup {RestartDone(n, ok, e) :
            n \in 0..MaxSession, ok \in BOOLEAN, e \in {None, EmptyStr, ErrBoom}}
    \cup {MonitorChanged(m) : m \in {None, MonitorName}}

\* the threads that call Store.dispatch: 1 is the GTK main thread
NThreads == 2

Threads == 1..NThreads

\* the calls of dispatch a thread makes from outside the store
MaxDispatch == 2

\* the calls of Store.subscribe
MaxSubscribe == 2

\* a Store nobody has subscribed to or is dispatching on
StoreAtRest ==
    /\ lock = 0
    /\ threads = [t \in Threads |-> <<>>]
    /\ subs = <<>>
    /\ closures = <<>>
    /\ budget = [t \in Threads |-> MaxDispatch]

\* SpeechService.__init__: no recording, an empty buffer, the lock free; the
\* audio callback thread (cb) and the thread that calls start / stop (op) are
\* at rest; epoch counts the recordings start() has begun, observed is the
\* epoch at which the callback read is_recording
SpeechService ==
    [is_recording |-> FALSE, recording |-> <<>>, stream_lock |-> "free",
     cb |-> "rest", op |-> "rest", epoch |-> 0, observed |-> 0]

\* no snapshot was passed to GLib.idle_add yet
NoSnapshot == [phase |-> "none"]

\* no pure function has been called
NoCall == [fn |-> "none"]

\* no exception has left Store.dispatch
NoException == "none"

\* the parts of the full system, at rest
SystemAtRest ==
    /\ sync_mode = FALSE
    /\ raised = NoException
    /\ pure = NoCall
    /\ shown = NoSnapshot
    /\ speech = SpeechService
    /\ StoreAtRest
    /\ stack = <<>>
    /\ workers = <<>>
    /\ idle = <<>>
    /\ copied = <<>>
    /\ saved = None

ReducerInit ==
    /\ state \in ReducerStates
    /\ last = [action |-> NotAnAction, prev |-> state]
    /\ SystemAtRest

\* one call next = Reducer.reduce(state, a)
Reduce(a) ==
    /\ (a.type = "UIStart" /\ state.phase = IDLE) => state.session_id < MaxSession
    /\ last' = [action |-> a, prev |-> state]
    /\ state' = reduce(state, a)
    /\ UNCHANGED <<sync_mode, pure, shown, speech, raised, store_vars, stack, workers, idle, copied, saved>>

ReducerNext == \E a \in ReducerEvents : Reduce(a)

ReducerSpec == ReducerInit /\ [][ReducerNext]_vars

(***************************************************************************)
(* Spec: the full system.  Every Store.dispatch runs on the main thread    *)
(* (a GTK handler, a GLib idle callback or, nested, an effect handler of   *)
(* a dispatch in progress); `stack` is that thread's stack of dispatch     *)
(* calls, each past its reducer step and about to run the effect number    *)
(* pc of Store._effects.  Worker threads only run a task and hand its      *)
(* callback to the main loop.                                              *)
(***************************************************************************)
\* what the collaborators may answer
\* speech.stop_and_recognize(): a text, "" or None, or an exception e, of
\* which the task keeps str(e)
ASRResults ==
    {<<t, None>> : t \in {None, EmptyStr, TextHi}}
    \cup {<<None, e>> : e \in {EmptyStr, ErrBoom}}

\* post_processing.process(text): a string (the input itself when the
\* service falls back), or an exception
LLMResults(text) ==
    {<<t, None>> : t \in {EmptyStr, TextOk, text}}
    \cup {<<None, e>> : e \in {EmptyStr, ErrBoom}}

\* speech.stop(); sleep; speech.start(): the answer of start(), or an exception
RestartResults ==
    {<<ok, None>> : ok \in BOOLEAN}
    \cup {<<FALSE, e>> : e \in {EmptyStr, ErrBoom}}

\* the closures task / done an effect hands to run_async
Task(kind, session, text) == [kind |-> kind, session |-> session, text |-> text]

TaskResults(t) ==
    CASE t.kind = "asr" -> ASRResults
      [] t.kind = "llm" -> LLMResults(t.text)
      [] t.kind = "restart" -> RestartResults

\* done(result): the completion event the callback dispatches
done(t, r) ==
    CASE t.kind = "asr" -> ASRDone(t.session, r[1], r[2])
      [] t.kind = "llm" -> LLMDone(t.session, r[1], r[2])
      [] t.kind = "restart" -> RestartDone(t.session, r[1], r[2])

Init ==
    /\ \E c \in Configs : state = InitialState(c)
    /\ last = [action |-> NotAnAction, prev |-> state]
    /\ sync_mode \in BOOLEAN
    /\ stack = <<>>
    /\ workers = <<>>
    /\ idle = <<>>
    /\ copied = <<>>
    /\ saved = None
    /\ raised = NoException
    /\ pure = NoCall
    /\ shown = NoSnapshot
    /\ speech = SpeechService
    /\ StoreAtRest

Top == stack[Len(stack)]

\* the dispatch on top of the stack goes on to its next effect handler
Advanced == [stack EXCEPT ![Len(stack)].pc = @ + 1]

\* Store.dispatch(a), up to its effects: the reducer step under the lock
\* (prev, next, swap); `under` is the stack of the calls it is nested in.
\* Step 2, GLib.idle_add(fn, next_state) for each subscriber, writes none of
\* the variables of this module.
dispatch(a, under) ==
    /\ state' = reduce(state, a)
    /\ stack' = Append(under, [action |-> a, prev |-> state,
                               next |-> reduce(state, a), pc |-> 1,
                               started |-> "none"])

\* run_async that starts a worker thread in synchronous mode too
run_async_always_threaded(t) ==
    /\ workers' = Append(workers, t)
    /\ stack' = Advanced
    /\ UNCHANGED state

\* AsyncTaskRunner.run_async(task, done), called by the effect on top of the
\* stack: in-line in synchronous mode, on a new worker thread otherwise
run_async(t) ==
    IF sync_mode
    THEN /\ \E r \in TaskResults(t) : dispatch(done(t, r), Advanced)
         /\ UNCHANGED workers
    ELSE /\ workers' = Append(workers, t)
         /\ stack' = Advanced
         /\ UNCHANGED state

\* a GTK handler (or any caller on the main thread) dispatches a user event
UserDispatch(a) ==
    /\ stack = <<>>
    /\ (a.type = "UIStart" /\ state.phase = IDLE) => state.session_id < MaxSession
    /\ dispatch(a, stack)
    /\ UNCHANGED <<last, sync_mode, pure, shown, speech, raised, store_vars, workers, idle, copied, saved>>

\* a worker thread that calls callback(result) itself when its task is done:
\* done dispatches on the worker thread
WorkerFinish_calls_back(i) ==
    /\ \E r \in TaskResults(workers[i]) :
          dispatch(done(workers[i], r), stack)
    /\ workers' = SubSeq(workers, 1, i - 1) \o SubSeq(workers, i + 1, Len(workers))
    /\ UNCHANGED <<last, sync_mode, pure, shown, speech, raised, store_vars, idle, copied, saved>>

\* a worker thread finishes its task and calls GLib.idle_add(callback, result)
WorkerFinish(i) ==
    /\ \E r \in TaskResults(workers[i]) :
          idle' = Append(idle, done(workers[i], r))
    /\ workers' = SubSeq(workers, 1, i - 1) \o SubSeq(workers, i + 1, Len(workers))
    /\ UNCHANGED <<state, last, sync_mode, pure, shown, speech, raised, store_vars, stack, copied, saved>>

\* the main loop runs the oldest idle callback: done(result) dispatches
MainLoopIdle ==
    /\ stack = <<>>
    /\ idle # <<>>
    /\ dispatch(Head(idle), stack)
    /\ idle' = Tail(idle)
    /\ UNCHANGED <<last, sync_mode, pure, shown, speech, raised, store_vars, workers, copied, saved>>

\* the event StartRecordingEffect dispatches for the stale session
start_failed_event_of_prev(prev, next) ==
    ASRDone(prev.session_id, None, ErrStartFailed)

\* the event StartRecordingEffect dispatches when speech.start() answers False
start_failed_event(prev, next) ==
    ASRDone(next.session_id, None, ErrStartFailed)

\* the frame on top goes on to its next handler, keeping the answer `ok` of
\* speech.start()
Started(ok) ==
    [Advanced EXCEPT ![Len(stack)].started = IF ok THEN "ok" ELSE "failed"]

StartRecordingEffect_handle ==
    /\ stack # <<>>
    /\ Top.pc = 1
    /\ IF StartRecordingTrigger(Top.action, Top.prev, Top.next)
       THEN \E ok \in BOOLEAN :
               IF ok
               THEN stack' = Started(TRUE) /\ UNCHANGED state
               ELSE dispatch(start_failed_event(Top.prev, Top.next),
                             Started(FALSE))
       ELSE stack' = Advanced /\ UNCHANGED state
    /\ UNCHANGED <<last, sync_mode, pure, shown, speech, raised, store_vars, workers, idle, copied, saved>>

ASREffect_handle ==
    /\ stack # <<>>
    /\ Top.pc = 2
    /\ IF ASRTrigger(Top.action, Top.prev, Top.next)
       THEN run_async(Task("asr", Top.next.session_id, None))
       ELSE stack' = Advanced /\ UNCHANGED <<state, workers>>
    /\ UNCHANGED <<last, sync_mode, pure, shown, speech, raised, store_vars, idle, copied, saved>>

LLMEffect_handle ==
    /\ stack # <<>>
    /\ Top.pc = 3
    /\ IF LLMTrigger(Top.action, Top.prev, Top.next)
       THEN run_async(Task("llm", Top.next.session_id, Top.action.text))
       ELSE stack' = Advanced /\ UNCHANGED <<state, workers>>
    /\ UNCHANGED <<last, sync_mode, pure, shown, speech, raised, store_vars, idle, copied, saved>>

FinalizeEffect_handle ==
    /\ stack # <<>>
    /\ Top.pc = 4
    /\ copied' = copied \o FinalizeEffect_copies(Top.action, Top.prev, Top.next)
    /\ stack' = Advanced
    /\ UNCHANGED <<state, last, sync_mode, pure, shown, speech, raised, store_vars, workers, idle, saved>>

RestartEffect_handle ==
    /\ stack # <<>>
    /\ Top.pc = 5
    /\ IF RestartTrigger(Top.action, Top.prev, Top.next)
       THEN run_async(Task("restart", Top.next.session_id, None))
       ELSE stack' = Advanced /\ UNCHANGED <<state, workers>>
    /\ UNCHANGED <<last, sync_mode, pure, shown, speech, raised, store_vars, idle, copied, saved>>

\* the last effect handler; after it Store.dispatch returns
SettingsPersistenceEffect_handle ==
    /\ stack # <<>>
    /\ Top.pc = 6
    /\ saved' = IF settings_changed(Top.prev, Top.next)
                THEN [settings |-> ConfigOf(Top.next)]
                ELSE saved
    /\ stack' = SubSeq(stack, 1, Len(stack) - 1)
    /\ UNCHANGED <<state, last, sync_mode, pure, shown, speech, raised, store_vars, workers, idle, copied>>

Next ==
    \/ \E a \in {UIStart, UIStop, UIRestart, UIToggleLLM} : UserDispatch(a)
    \/ \E i \in 1..Len(workers) : WorkerFinish(i)
    \/ MainLoopIdle
    \/ StartRecordingEffect_handle
    \/ ASREffect_handle
    \/ LLMEffect_handle
    \/ FinalizeEffect_handle
    \/ RestartEffect_handle
    \/ SettingsPersistenceEffect_handle

Spec == Init /\ [][Next]_vars

\* Spec with its scheduling: a dispatch in progress on the main thread runs
\* its handlers to the end (each handler step is taken once it is enabled);
\* a worker thread that was started finishes its task; and the main loop
\* comes to the idle callbacks again and again, however often the user
\* dispatches in between (strong fairness: a dispatch in progress disables
\* the main loop for a while)
FairSpec ==
    /\ Spec
    /\ WF_vars(StartRecordingEffect_handle)
    /\ WF_vars(ASREffect_handle)
    /\ WF_vars(LLMEffect_handle)
    /\ WF_vars(FinalizeEffect_handle)
    /\ WF_vars(RestartEffect_handle)
    /\ WF_vars(SettingsPersistenceEffect_handle)
    /\ WF_vars(\E i \in 1..Len(workers) : WorkerFinish(i))
    /\ SF_vars(MainLoopIdle)

(***************************************************************************)
(* The full system with collaborators that raise.  The effects take their  *)
(* collaborators as protocols (SpeechProtocol, ClipboardProtocol, ...), and *)
(* a call of one may raise.  The tasks of ASREffect, LLMEffect and         *)
(* RestartEffect catch every Exception and return (None, str(e)) or        *)
(* (False, str(e)): those are the error results of TaskResults.            *)
(* _save_settings catches and logs.  StartRecordingEffect.handle and       *)
(* FinalizeEffect.copy_paste call the collaborator with no try, and        *)
(* neither the loop over the effects in Store.dispatch nor run_async in    *)
(* synchronous mode has one: the exception leaves every dispatch in        *)
(* progress on the thread.                                                 *)
(***************************************************************************)
\* speech.start() raises inside StartRecordingEffect.handle
StartRecordingEffect_raises ==
    /\ stack # <<>>
    /\ Top.pc = 1
    /\ StartRecordingTrigger(Top.action, Top.prev, Top.next)
    /\ stack' = <<>>
    /\ raised' = "speech.start"
    /\ UNCHANGED <<state, last, sync_mode, pure, shown, speech, store_vars, workers, idle, copied, saved>>

\* clipboard.copy_standard / copy_primary raises inside
\* FinalizeEffect.copy_paste
FinalizeEffect_raises ==
    /\ stack # <<>>
    /\ Top.pc = 4
    /\ FinalizeEffect_copies(Top.action, Top.prev, Top.next) # <<>>
    /\ stack' = <<>>
    /\ raised' = "clipboard.copy"
    /\ UNCHANGED <<state, last, sync_mode, pure, shown, speech, store_vars, workers, idle, copied, saved>>

\* clipboard.copy_standard / copy_primary answers False (the shipped
\* ClipboardService does after an exception it caught); copy_paste goes on
FinalizeEffect_copy_fails ==
    /\ stack # <<>>
    /\ Top.pc = 4
    /\ FinalizeEffect_calls(Top.action, Top.prev, Top.next, FALSE) # <<>>
    /\ copied' = copied \o FinalizeEffect_calls(Top.action, Top.prev, Top.next, FALSE)
    /\ stack' = Advanced
    /\ UNCHANGED <<state, last, sync_mode, pure, shown, speech, raised, store_vars, workers,
                   idle, saved>>

\* writing settings.json raises inside _save_settings, which catches and logs
SettingsPersistenceEffect_write_fails ==
    /\ stack # <<>>
    /\ Top.pc = 6
    /\ settings_changed(Top.prev, Top.next)
    /\ stack' = SubSeq(stack, 1, Len(stack) - 1)
    /\ UNCHANGED <<state, last, sync_mode, pure, shown, speech, raised, store_vars, workers, idle, copied, saved>>

FaultNext ==
    \/ Next
    \/ StartRecordingEffect_raises
    \/ FinalizeEffect_raises
    \/ FinalizeEffect_copy_fails
    \/ SettingsPersistenceEffect_write_fails

FaultSpec == Init /\ [][FaultNext]_vars

(***************************************************************************)
(* SmartSpec: FinalizeEffect.smart_process as a pure function, called with *)
(* every setting of the two configuration fields it reads and every text   *)
(* of up to MaxTextLen characters.                                         *)
(***************************************************************************)
MaxTextLen == 3

\* the texts: letters, periods and blanks
Texts ==
    UNION {[1..n -> {"H", ".", " "}] : n \in 0..MaxTextLen}

\* the states smart_process is called with
SmartStates ==
    {[InitialState(DefaultConfig) EXCEPT !.smart_text_processing = b,
                                         !.smart_short_phrase_words = k] :
        b \in BOOLEAN, k \in 0..2}

SmartInit ==
    /\ state = InitialState(DefaultConfig)
    /\ last = [action |-> NotAnAction, prev |-> state]
    /\ SystemAtRest

\* one call result = smart_process(st, text)
SmartProcess(st, text) ==
    /\ pure' = [fn |-> "smart_process",
                smart_text_processing |-> st.smart_text_processing,
                smart_short_phrase_words |-> st.smart_short_phrase_words,
                text |-> text,
                result |-> smart_process(st, Str(text))]
    /\ UNCHANGED <<state, last, sync_mode, shown, speech, stack, workers, idle, copied, saved,
                   raised, store_vars>>

SmartNext == \E st \in SmartStates, text \in Texts : SmartProcess(st, text)

SmartSpec == SmartInit /\ [][SmartNext]_vars

(***************************************************************************)
(* StoreSpec: Store.dispatch, subscribe and the unsubscribe closures, line *)
(* by line, called from several threads.  Every thread may call dispatch   *)
(* with a user event; thread 1, the GTK main thread, also runs the         *)
(* completion callbacks GLib.idle_add has queued.  The effect handlers are *)
(* the six of create_with_defaults, and act on the arguments they are      *)
(* passed.  What GLib.idle_add(fn, next_state) schedules for a subscriber  *)
(* is kept in the frame of the dispatch that scheduled it.                 *)
(***************************************************************************)
\* the callables that subscribe
Fns == {"f", "g"}

\* a local of Store.dispatch that is not assigned yet
Unassigned == [phase |-> "unassigned"]

\* a dispatch a thread made from outside the store launched no task
NoLauncher == -1

\* the six effects in the order of Store._effects
Effects ==
    <<"StartRecordingEffect", "ASREffect", "LLMEffect", "FinalizeEffect",
      "RestartEffect", "SettingsPersistenceEffect">>

\* Store.dispatch with steps 2 and 3 inside the `with self._lock` block
body_lock_held_to_the_end ==
    <<"lock", "swap", "notify">> \o Effects \o <<"unlock", "return">>

\* the body of Store.dispatch: `with self._lock:` (lock ... unlock), the loop
\* over the subscribers, the loop over the effects
body ==
    <<"lock", "swap", "unlock", "notify">> \o Effects \o <<"return">>

\* the position in the body
At(pc) == CHOOSE i \in 1..Len(body) : body[i] = pc

\* Store.dispatch that returns early when the reducer returned its input
after_returns_if_unchanged(f) ==
    IF f.pc = "unlock" /\ f.next = f.prev
    THEN "return"
    ELSE body[At(f.pc) + 1]

\* where the call f goes on after the step it is at
after(f) == body[At(f.pc) + 1]

\* the call dispatch(a) as it begins.  launcher: the session of the dispatch
\* whose handler launched the task that calls it, if one did; calls: what this
\* call has passed to GLib.idle_add and to the handlers so far; stale: some
\* of that was passed when self._state was no longer this call's next_state
Frame(a, launcher) ==
    [action |-> a, prev |-> Unassigned, next |-> Unassigned, over |-> Unassigned,
     pc |-> "lock", registered |-> <<>>, calls |-> <<>>, stale |-> FALSE,
     launcher |-> launcher]

\* the call thread t is executing
Cur(t) == threads[t][Len(threads[t])]

\* thread t is at step pc of a dispatch
AtStep(t, pc) == threads[t] # <<>> /\ Cur(t).pc = pc

\* the call thread t is executing becomes f
Becomes(t, f) == [threads EXCEPT ![t] = [@ EXCEPT ![Len(@)] = f]]

\* the call thread t is executing becomes f and calls dispatch(a) itself
Nested(t, f, a, launcher) ==
    [threads EXCEPT ![t] = Append([@ EXCEPT ![Len(@)] = f], Frame(a, launcher))]

\* a threading.Lock that excludes nobody
LockAvailable_always(t) == TRUE

\* threading.Lock.acquire succeeds
LockAvailable(t) == lock = 0

\* what Store.dispatch passes to an effect handler if it read self._state
\* again instead of using its local next_state
HandlerArgs_of_current_state(f) == <<f.action, f.prev, state>>

\* what Store.dispatch passes to eff.handle: (action, prev, next_state)
HandlerArgs(f) == <<f.action, f.prev, f.next>>

\* what Store.dispatch passes to GLib.idle_add(fn, next_state)
SubscriberArg(f) == f.next

\* `session = next.session_id` replaced by a read of the store when the
\* task is launched
task_session_of_store(action, prev, next) == state.session_id

\* `session = next.session_id`, which the closure done captures
task_session(action, prev, next) == next.session_id

\* the closures task / done of a handler called with args, for the dispatch f
StoreTask(kind, args, f) ==
    [kind |-> kind, session |-> task_session(args[1], args[2], args[3]),
     text |-> IF kind = "llm" THEN args[1].text ELSE None,
     launcher |-> f.next.session_id]

StoreInit ==
    /\ state = InitialState(DefaultConfig)
    /\ last = [action |-> NotAnAction, prev |-> state]
    /\ sync_mode \in BOOLEAN
    /\ stack = <<>>
    /\ workers = <<>>
    /\ idle = <<>>
    /\ copied = <<>>
    /\ saved = None
    /\ raised = NoException
    /\ pure = NoCall
    /\ shown = NoSnapshot
    /\ speech = SpeechService
    /\ lock = 0
    /\ threads = [t \in Threads |-> <<>>]
    /\ subs = <<"f", "g">>
    /\ closures = <<>>
    /\ budget = [t \in Threads |-> IF t = 1 THEN MaxDispatch ELSE MaxDispatch - 1]

\* thread t calls store.dispatch(a)
Call(t, a) ==
    /\ threads[t] = <<>>
    /\ budget[t] > 0
    /\ budget' = [budget EXCEPT ![t] = @ - 1]
    /\ threads' = [threads EXCEPT ![t] = <<Frame(a, NoLauncher)>>]
    /\ UNCHANGED <<state, last, sync_mode, pure, shown, speech, stack, workers, idle, copied, saved,
                   raised, lock, subs, closures>>

\* `with self._lock:` entered, and prev = self._state
Acquire(t) ==
    /\ AtStep(t, "lock")
    /\ LockAvailable(t)
    /\ lock' = t
    /\ threads' = Becomes(t, [Cur(t) EXCEPT !.prev = state, !.pc = after(Cur(t))])
    /\ UNCHANGED <<state, last, sync_mode, pure, shown, speech, stack, workers, idle, copied, saved,
                   raised, subs, closures, budget>>

\* next_state = self._reducer(prev, action); self._state = next_state
\* (over: the snapshot the assignment replaces)
Swap(t) ==
    /\ AtStep(t, "swap")
    /\ LET f == [Cur(t) EXCEPT !.next = reduce(Cur(t).prev, Cur(t).action),
                               !.over = state]
       IN  /\ state' = f.next
           /\ threads' = Becomes(t, [f EXCEPT !.pc = after(f)])
    /\ UNCHANGED <<last, sync_mode, pure, shown, speech, stack, workers, idle, copied, saved,
                   raised, lock, subs, closures, budget>>

\* the `with` block left
Release(t) ==
    /\ AtStep(t, "unlock")
    /\ lock' = 0
    /\ threads' = Becomes(t, [Cur(t) EXCEPT !.pc = after(Cur(t))])
    /\ UNCHANGED <<state, last, sync_mode, pure, shown, speech, stack, workers, idle, copied, saved,
                   raised, subs, closures, budget>>

\* for fn in list(self._subs): GLib.idle_add(fn, next_state)
Notify(t) ==
    /\ AtStep(t, "notify")
    /\ threads' = Becomes(t,
          [Cur(t) EXCEPT
              !.registered = subs,
              !.calls = [i \in 1..Len(subs) |->
                            [what |-> "idle_add", fn |-> subs[i],
                             args |-> <<SubscriberArg(Cur(t))>>]],
              !.stale = @ \/ (subs # <<>> /\ state # Cur(t).next),
              !.pc = after(Cur(t))])
    /\ shown' = IF subs # <<>> THEN SubscriberArg(Cur(t)) ELSE shown
    /\ UNCHANGED <<state, last, sync_mode, pure, speech, stack, workers, idle, copied, saved,
                   raised, lock, subs, closures, budget>>

\* the call on thread t, after eff.handle(action, prev, next_state,
\* self.dispatch) of the effect it is at has been called
Handled(t) ==
    [Cur(t) EXCEPT
        !.calls = Append(@, [what |-> Cur(t).pc, args |-> HandlerArgs(Cur(t))]),
        !.stale = @ \/ state # Cur(t).next,
        !.pc = after(Cur(t))]

\* AsyncTaskRunner.run_async(task, done) called by a handler on thread t
store_run_async(t, task) ==
    IF sync_mode
    THEN /\ \E r \in TaskResults(task) :
              threads' = Nested(t, Handled(t), done(task, r), task.launcher)
         /\ UNCHANGED workers
    ELSE /\ workers' = Append(workers, task)
         /\ threads' = Becomes(t, Handled(t))

StoreStartRecordingEffect(t) ==
    /\ AtStep(t, "StartRecordingEffect")
    /\ LET args == HandlerArgs(Cur(t))
       IN  IF StartRecordingTrigger(args[1], args[2], args[3])
           THEN \E ok \in BOOLEAN :
                   IF ok
                   THEN threads' = Becomes(t, Handled(t))
                   ELSE threads' = Nested(t, Handled(t),
                                          start_failed_event(args[2], args[3]),
                                          Cur(t).next.session_id)
           ELSE threads' = Becomes(t, Handled(t))
    /\ UNCHANGED <<state, last, sync_mode, pure, shown, speech, stack, workers, idle, copied, saved,
                   raised, lock, subs, closures, budget>>

StoreASREffect(t) ==
    /\ AtStep(t, "ASREffect")
    /\ LET args == HandlerArgs(Cur(t))
       IN  IF ASRTrigger(args[1], args[2], args[3])
           THEN store_run_async(t, StoreTask("asr", args, Cur(t)))
           ELSE threads' = Becomes(t, Handled(t)) /\ UNCHANGED workers
    /\ UNCHANGED <<state, last, sync_mode, pure, shown, speech, stack, idle, copied, saved,
                   raised, lock, subs, closures, budget>>

StoreLLMEffect(t) ==
    /\ AtStep(t, "LLMEffect")
    /\ LET args == HandlerArgs(Cur(t))
       IN  IF LLMTrigger(args[1], args[2], args[3])
           THEN store_run_async(t, StoreTask("llm", args, Cur(t)))
           ELSE threads' = Becomes(t, Handled(t)) /\ UNCHANGED workers
    /\ UNCHANGED <<state, last, sync_mode, pure, shown, speech, stack, idle, copied, saved,
                   raised, lock, subs, closures, budget>>

StoreFinalizeEffect(t) ==
    /\ AtStep(t, "FinalizeEffect")
    /\ LET args == HandlerArgs(Cur(t))
       IN  copied' = copied \o FinalizeEffect_copies(args[1], args[2], args[3])
    /\ threads' = Becomes(t, Handled(t))
    /\ UNCHANGED <<state, last, sync_mode, pure, shown, speech, stack, workers, idle, saved,
                   raised, lock, subs, closures, budget>>

StoreRestartEffect(t) ==
    /\ AtStep(t, "RestartEffect")
    /\ LET args == HandlerArgs(Cur(t))
       IN  IF RestartTrigger(args[1], args[2], args[3])
           THEN store_run_async(t, StoreTask("restart", args, Cur(t)))
           ELSE threads' = Becomes(t, Handled(t)) /\ UNCHANGED workers
    /\ UNCHANGED <<state, last, sync_mode, pure, shown, speech, stack, idle, copied, saved,
                   raised, lock, subs, closures, budget>>

StoreSettingsPersistenceEffect(t) ==
    /\ AtStep(t, "SettingsPersistenceEffect")
    /\ LET args == HandlerArgs(Cur(t))
       IN  saved' = IF settings_changed(args[2], args[3])
                    THEN [settings |-> ConfigOf(args[3])]
                    ELSE saved
    /\ threads' = Becomes(t, Handled(t))
    /\ UNCHANGED <<state, last, sync_mode, pure, shown, speech, stack, workers, idle, copied,
                   raised, lock, subs, closures, budget>>

\* Store.dispatch returns to its caller
Return(t) ==
    /\ AtStep(t, "return")
    /\ threads' = [threads EXCEPT ![t] = SubSeq(@, 1, Len(@) - 1)]
    /\ UNCHANGED <<state, last, sync_mode, pure, shown, speech, stack, workers, idle, copied, saved,
                   raised, lock, subs, closures, budget>>

\* a worker thread finishes its task and calls GLib.idle_add(callback, result)
StoreWorkerFinish(i) ==
    /\ \E r \in TaskResults(workers[i]) :
          idle' = Append(idle, [event |-> done(workers[i], r),
                                launcher |-> workers[i].launcher])
    /\ workers' = SubSeq(workers, 1, i - 1) \o SubSeq(workers, i + 1, Len(workers))
    /\ UNCHANGED <<state, last, sync_mode, pure, shown, speech, stack, copied, saved, raised,
                   store_vars>>

\* the main loop, on thread 1, runs the oldest completion callback
StoreMainLoopIdle ==
    /\ threads[1] = <<>>
    /\ idle # <<>>
    /\ threads' = [threads EXCEPT ![1] = <<Frame(Head(idle).event,
                                                 Head(idle).launcher)>>]
    /\ idle' = Tail(idle)
    /\ UNCHANGED <<state, last, sync_mode, pure, shown, speech, stack, workers, copied, saved,
                   raised, lock, subs, closures, budget>>

\* store.subscribe(fn): append, call fn(self._state), return the closure
Subscribe(fn) ==
    /\ Len(closures) < MaxSubscribe
    /\ subs' = Append(subs, fn)
    /\ closures' = Append(closures, [fn |-> fn, first |-> <<state>>,
                                     called |-> 0, removed |-> 0])
    /\ UNCHANGED <<state, last, sync_mode, pure, shown, speech, stack, workers, idle, copied, saved,
                   raised, lock, threads, budget>>

\* list.remove(fn): the list without the first element equal to fn
RECURSIVE Remove(_, _)
Remove(list, fn) ==
    IF list = <<>> THEN <<>>
    ELSE IF Head(list) = fn THEN Tail(list)
    ELSE <<Head(list)>> \o Remove(Tail(list), fn)

\* fn in self._subs
Contains(list, fn) == \E i \in 1..Len(list) : list[i] = fn

\* the closure subscribe returned for its c-th call is called:
\* self._subs.remove(fn) if fn in self._subs else None
Unsubscribe(c) ==
    /\ closures[c].called < 2
    /\ LET fn == closures[c].fn
       IN  IF Contains(subs, fn)
           THEN /\ subs' = Remove(subs, fn)
                /\ closures' = [closures EXCEPT ![c].called = @ + 1,
                                                ![c].removed = @ + 1]
           ELSE /\ subs' = subs
                /\ closures' = [closures EXCEPT ![c].called = @ + 1]
    /\ UNCHANGED <<state, last, sync_mode, pure, shown, speech, stack, workers, idle, copied, saved,
                   raised, lock, threads, budget>>

\* a step of thread t inside Store.dispatch
DispatchStep(t) ==
    \/ Acquire(t)
    \/ Swap(t)
    \/ Release(t)
    \/ Notify(t)
    \/ StoreStartRecordingEffect(t)
    \/ StoreASREffect(t)
    \/ StoreLLMEffect(t)
    \/ StoreFinalizeEffect(t)
    \/ StoreRestartEffect(t)
    \/ StoreSettingsPersistenceEffect(t)
    \/ Return(t)

StoreNext ==
    \/ \E t \in Threads, a \in {UIStart, UIStop, UIRestart, UIToggleLLM} : Call(t, a)
    \/ \E t \in Threads : DispatchStep(t)
    \/ \E i \in 1..Len(workers) : StoreWorkerFinish(i)
    \/ StoreMainLoopIdle

StoreSpec == StoreInit /\ [][StoreNext]_vars

(***************************************************************************)
(* SubscriberSpec: the Store with callables that subscribe and unsubscribe *)
(* while the main thread dispatches.  Nobody is subscribed at first.       *)
(***************************************************************************)
SubscriberInit ==
    /\ state = InitialState(DefaultConfig)
    /\ last = [action |-> NotAnAction, prev |-> state]
    /\ sync_mode = FALSE
    /\ stack = <<>>
    /\ workers = <<>>
    /\ idle = <<>>
    /\ copied = <<>>
    /\ saved = None
    /\ raised = NoException
    /\ pure = NoCall
    /\ shown = NoSnapshot
    /\ speech = SpeechService
    /\ lock = 0
    /\ threads = [t \in Threads |-> <<>>]
    /\ subs = <<>>
    /\ closures = <<>>
    /\ budget = [t \in Threads |-> IF t = 1 THEN MaxDispatch ELSE 0]

SubscriberNext ==
    \/ StoreNext
    \/ \E fn \in Fns : Subscribe(fn)
    \/ \E c \in 1..Len(closures) : Unsubscribe(c)

SubscriberSpec == SubscriberInit /\ [][SubscriberNext]_vars

(***************************************************************************)
(* Claims about the full system, checked under Spec.                       *)
(***************************************************************************)
\* the copies FinalizeEffect has made for session n
CopiesOf(n) == {i \in 1..Len(copied) : copied[i].session_id = n}

\* C1: in the full system, for every order of user events (UIStart, UIStop,
\* UIRestart, UIToggleLLM in any phase) and task completions, FinalizeEffect
\* makes at most one copy (copy_standard / copy_primary) per session_id.
C1_FinalizeAtMostOncePerSession ==
    \A n \in 0..MaxSession : Cardinality(CopiesOf(n)) <= 1

\* C1 witness: sessions 1 and 2 were each finalized, once; the system is at
\* rest in session 2, which ended with a recognised text and no processed one
C1_Witness ==
    /\ Len(copied) = 2
    /\ copied[1].session_id = 1
    /\ copied[2].session_id = 2
    /\ stack = <<>>
    /\ workers = <<>>
    /\ idle = <<>>
    /\ state.session_id = 2
    /\ state.processed_text = None
    /\ state.recognized_text = TextHi
    /\ state.llm_enabled

(***************************************************************************)
(* Claims about the reducer, checked under ReducerSpec.  `last` holds the  *)
(* event and the input state of the call that returned `state`.            *)
(***************************************************************************)
IsCompletion(a) == a.type \in {"ASRDone", "LLMDone", "RestartDone"}

\* a completion event of the session the state is in
Matching(a, st) == IsCompletion(a) /\ a.session_id = st.session_id

\* a completion event of another session
Stale(a, st) == IsCompletion(a) /\ a.session_id # st.session_id

\* C2: a completion event (ASRDone, LLMDone, RestartDone) whose session_id
\* differs from the state's session_id leaves every field of the state as it
\* was, whatever the phase and the event's text / error / success.
C2_StaleCompletionIsNoOp ==
    Stale(last.action, last.prev) => state = last.prev

\* C2 witness: a stale ASRDone carrying a text arrived in PROCESSING
C2_Witness ==
    /\ last.action.type = "ASRDone"
    /\ last.action.session_id # last.prev.session_id
    /\ Truthy(last.action.text)
    /\ ~Truthy(last.action.error)
    /\ last.prev.phase = PROCESSING

\* C3: the phase is always one of the five Phase values; session_id never
\* decreases; it grows, by exactly 1, when UIStart is applied in IDLE and is
\* left unchanged by every other event (UIRestart and RestartDone included).
C3_PhaseAndSessionId ==
    /\ state.phase \in Phase
    /\ state.session_id >= last.prev.session_id
    /\ IF last.action.type = "UIStart" /\ last.prev.phase = IDLE
       THEN state.session_id = last.prev.session_id + 1
       ELSE state.session_id = last.prev.session_id

\* C3 witness: a successful RestartDone of the current session was applied
\* in RESTARTING, in the last session of the run
C3_Witness ==
    /\ last.action.type = "RestartDone"
    /\ last.action.session_id = last.prev.session_id
    /\ last.action.success
    /\ last.prev.phase = RESTARTING
    /\ state.session_id = MaxSession

\* C4: UIStart applied in IDLE gives RECORDING with recognized_text,
\* processed_text and error None, session_id one more than before, and the
\* five configuration fields as before.
C4_StartClearsAndIncrements ==
    (last.action.type = "UIStart" /\ last.prev.phase = IDLE) =>
        /\ state.phase = RECORDING
        /\ state.recognized_text = None
        /\ state.processed_text = None
        /\ state.error = None
        /\ state.session_id = last.prev.session_id + 1
        /\ ConfigOf(state) = ConfigOf(last.prev)

\* C4 witness: UIStart applied in IDLE to a state whose two texts and error
\* were all set
C4_Witness ==
    /\ last.action.type = "UIStart"
    /\ last.prev.phase = IDLE
    /\ last.prev.recognized_text # None
    /\ last.prev.processed_text # None
    /\ last.prev.error # None
    /\ state.phase = RECORDING

\* the rows of the transition table: the (phase, event) pairs it lists.  A
\* completion event of another session is listed (as dropped) in every phase.
Listed(st, a) ==
    \/ a.type = "UIStart" /\ st.phase = IDLE
    \/ a.type = "UIStop" /\ st.phase = RECORDING
    \/ a.type = "UIRestart" /\ st.phase = RECORDING
    \/ a.type = "UIToggleLLM"
    \/ a.type = "ASRDone" /\ Matching(a, st) /\ st.phase = PROCESSING
    \/ a.type = "LLMDone" /\ Matching(a, st) /\ st.phase = POST_PROCESSING
    \/ a.type = "RestartDone" /\ Matching(a, st) /\ st.phase = RESTARTING
    \/ Stale(a, st)

\* the phase in which the table lists a completion event
ListedPhase(a) ==
    CASE a.type = "ASRDone" -> PROCESSING
      [] a.type = "LLMDone" -> POST_PROCESSING
      [] a.type = "RestartDone" -> RESTARTING

\* C5 as claimed: every (phase, event) pair the table does not list returns
\* the state unchanged; in particular a matching ASRDone outside PROCESSING,
\* a matching LLMDone outside POST_PROCESSING and a matching RestartDone
\* outside RESTARTING.  (MonitorChanged is left out: the table and the data
\* model of the specification do not know the monitor field.)
C5_UnlistedPairIsNoOp ==
    (~Listed(last.prev, last.action) /\ last.action.type # "MonitorChanged")
        => state = last.prev

\* C5 as amended: of the pairs the table does not list, the user-intent
\* events in a wrong phase and the values that are no event return the state
\* unchanged; a completion event of the current session is applied in every
\* phase exactly as in the phase the table lists it for (the reducer checks
\* the session_id of a completion event, never the phase).
C5_UnlistedPairAmended ==
    (~Listed(last.prev, last.action) /\ last.action.type # "MonitorChanged") =>
        IF Matching(last.action, last.prev)
        THEN state = reduce([last.prev EXCEPT !.phase = ListedPhase(last.action)],
                            last.action)
        ELSE state = last.prev

\* C5 witness: an LLMDone of the current session applied in RECORDING ended
\* the recording
C5_Witness ==
    /\ last.action.type = "LLMDone"
    /\ Matching(last.action, last.prev)
    /\ last.prev.phase = RECORDING
    /\ state.phase = IDLE
    /\ state # last.prev

InvalidIntent(st, a) ==
    \/ a.type = "UIStart" /\ st.phase # IDLE
    \/ a.type = "UIStop" /\ st.phase # RECORDING
    \/ a.type = "UIRestart" /\ st.phase # RECORDING

\* C6: UIStart outside IDLE, and UIStop or UIRestart outside RECORDING,
\* return the state they were given (no error set) and make none of
\* StartRecordingEffect, ASREffect and RestartEffect act.
C6_InvalidIntentIsSilent ==
    InvalidIntent(last.prev, last.action) =>
        /\ state = last.prev
        /\ ~StartRecordingTrigger(last.action, last.prev, state)
        /\ ~ASRTrigger(last.action, last.prev, state)
        /\ ~RestartTrigger(last.action, last.prev, state)

\* C6 witness: UIStop applied while PROCESSING
C6_Witness ==
    /\ last.action.type = "UIStop"
    /\ last.prev.phase = PROCESSING
    /\ state.phase = PROCESSING

\* C7: an ASRDone of the current session with a non-empty text and no error
\* (None or "", which Python takes as false) sets recognized_text to the text,
\* error to None and the phase to POST_PROCESSING if llm_enabled, else IDLE;
\* with no text (None or "") or with an error it gives IDLE and a non-empty
\* error, the event's or "empty asr".  session_id and the configuration
\* fields stay as they were.
C7_ASRDoneApplied ==
    (last.action.type = "ASRDone" /\ Matching(last.action, last.prev)) =>
        /\ IF Truthy(last.action.text) /\ ~Truthy(last.action.error)
           THEN /\ state.recognized_text = last.action.text
                /\ state.error = None
                /\ state.phase =
                     IF last.prev.llm_enabled THEN POST_PROCESSING ELSE IDLE
           ELSE /\ state.phase = IDLE
                /\ Truthy(state.error)
                /\ state.error = IF Truthy(last.action.error)
                                 THEN last.action.error ELSE ErrEmptyAsr
        /\ state.session_id = last.prev.session_id
        /\ ConfigOf(state) = ConfigOf(last.prev)

\* C7 witness: a recognised text arrived in PROCESSING with the LLM switched
\* off, and the session went to IDLE
C7_Witness ==
    /\ last.action.type = "ASRDone"
    /\ Matching(last.action, last.prev)
    /\ last.action.text = TextHi
    /\ last.action.error = None
    /\ last.prev.phase = PROCESSING
    /\ ~last.prev.llm_enabled
    /\ state.phase = IDLE

\* C8: an LLMDone of the current session always gives IDLE; with a non-empty
\* text and no error processed_text is that text; with no text or with an
\* error, error is a non-empty string (the event's or "empty llm") and
\* recognized_text stays as it was.
C8_LLMDoneApplied ==
    (last.action.type = "LLMDone" /\ Matching(last.action, last.prev)) =>
        /\ state.phase = IDLE
        /\ IF Truthy(last.action.text) /\ ~Truthy(last.action.error)
           THEN state.processed_text = last.action.text
           ELSE /\ Truthy(state.error)
                /\ state.error = IF Truthy(last.action.error)
                                 THEN last.action.error ELSE ErrEmptyLlm
                /\ state.recognized_text = last.prev.recognized_text

\* C8 witness: the LLM failed in POST_PROCESSING while a recognised text was
\* held
C8_Witness ==
    /\ last.action.type = "LLMDone"
    /\ Matching(last.action, last.prev)
    /\ last.action.text = None
    /\ last.action.error = ErrBoom
    /\ last.prev.phase = POST_PROCESSING
    /\ last.prev.recognized_text = TextHi
    /\ state.error = ErrBoom

\* C9: UIRestart applied in RECORDING gives RESTARTING with the same
\* session_id; a RestartDone of the current session applied in RESTARTING
\* gives, with success, RECORDING with recognized_text, processed_text and
\* error None and, without success, IDLE with a non-empty error (the event's
\* or "restart failed").
C9_RestartScenario ==
    /\ (last.action.type = "UIRestart" /\ last.prev.phase = RECORDING) =>
          /\ state.phase = RESTARTING
          /\ state.session_id = last.prev.session_id
    /\ (/\ last.action.type = "RestartDone"
        /\ Matching(last.action, last.prev)
        /\ last.prev.phase = RESTARTING) =>
          IF last.action.success
          THEN /\ state.phase = RECORDING
               /\ state.recognized_text = None
               /\ state.processed_text = None
               /\ state.error = None
          ELSE /\ state.phase = IDLE
               /\ Truthy(state.error)
               /\ state.error = IF Truthy(last.action.error)
                                THEN last.action.error ELSE ErrRestartFailed

\* C9 witness: a restart that failed without a message ended in IDLE with
\* "restart failed"
C9_Witness ==
    /\ last.action.type = "RestartDone"
    /\ Matching(last.action, last.prev)
    /\ ~last.action.success
    /\ last.action.error = None
    /\ last.prev.phase = RESTARTING
    /\ state.phase = IDLE
    /\ state.error = ErrRestartFailed

\* an event that begins a new attempt
BeginsAttempt(st, a) ==
    \/ a.type = "UIStart" /\ st.phase = IDLE
    \/ a.type = "UIStop" /\ st.phase = RECORDING
    \/ a.type = "UIRestart" /\ st.phase = RECORDING

\* C10: UIStop applied in RECORDING gives PROCESSING with error None and
\* session_id, recognized_text, processed_text and the configuration fields
\* as before; every event that begins a new attempt (UIStart in IDLE, UIStop
\* and UIRestart in RECORDING) leaves error None.
C10_StopAndErrorCleared ==
    /\ (last.action.type = "UIStop" /\ last.prev.phase = RECORDING) =>
          /\ state.phase = PROCESSING
          /\ state.session_id = last.prev.session_id
          /\ state.recognized_text = last.prev.recognized_text
          /\ state.processed_text = last.prev.processed_text
          /\ ConfigOf(state) = ConfigOf(last.prev)
    /\ BeginsAttempt(last.prev, last.action) => state.error = None

\* C10 witness: UIStop applied in RECORDING to a state holding an error and
\* a text
C10_Witness ==
    /\ last.action.type = "UIStop"
    /\ last.prev.phase = RECORDING
    /\ last.prev.error # None
    /\ last.prev.recognized_text # None
    /\ state.phase = PROCESSING

\* C11: UIToggleLLM applied in any phase flips llm_enabled and changes
\* nothing else: phase, session_id, both texts, error, the monitor name and
\* the other four configuration fields are as before.
C11_ToggleFlipsOnlyLlmEnabled ==
    last.action.type = "UIToggleLLM" =>
        /\ state.llm_enabled = ~last.prev.llm_enabled
        /\ state = [last.prev EXCEPT !.llm_enabled = state.llm_enabled]

\* C11 witness: the LLM was switched off while a session was in
\* POST_PROCESSING, holding a recognised text and an error
C11_Witness ==
    /\ last.action.type = "UIToggleLLM"
    /\ last.prev.phase = POST_PROCESSING
    /\ last.prev.llm_enabled
    /\ last.prev.recognized_text = TextHi
    /\ last.prev.error # None
    /\ state.phase = POST_PROCESSING

\* an Optional[str] over the symbols of the model
IsOptStr(o) ==
    /\ DOMAIN o = {"some", "s"}
    /\ o.some \in BOOLEAN
    /\ o.s \in Seq({"H", "i", ".", "O", "k", " ", "o", "\n", "h", "boom",
                    "empty asr", "empty llm", "restart failed",
                    "failed to start recording", "HDMI-1"})
    /\ ~o.some => o.s = <<>>

\* a value of the dataclass State
IsState(st) ==
    /\ DOMAIN st = {"phase", "llm_enabled", "auto_paste", "copy_method",
                    "smart_text_processing", "smart_short_phrase_words",
                    "recognized_text", "processed_text", "error", "session_id",
                    "current_monitor_name"}
    /\ st.phase \in Phase
    /\ st.llm_enabled \in BOOLEAN
    /\ st.auto_paste \in BOOLEAN
    /\ st.copy_method \in {"clipboard", "primary"}
    /\ st.smart_text_processing \in BOOLEAN
    /\ st.smart_short_phrase_words \in Int
    /\ IsOptStr(st.recognized_text)
    /\ IsOptStr(st.processed_text)
    /\ IsOptStr(st.error)
    /\ st.session_id \in Nat
    /\ IsOptStr(st.current_monitor_name)

StartFailed == stack # <<>> /\ stack[1].started = "failed"

\* C19: when speech.start() answers False on a UIStart that took IDLE to
\* RECORDING, StartRecordingEffect dispatches, inside that same call,
\* ASRDone(new session_id, no text, "failed to start recording"); from the
\* return of that nested dispatch until dispatch(UIStart) returns, the phase
\* is IDLE, the error is "failed to start recording", the session_id is the
\* incremented one, and neither LLMEffect (no task, no completion event, for
\* that session) nor FinalizeEffect (no copy for that session) has acted.
C19_StartFailureEndsInIdle ==
    StartFailed =>
        /\ stack[1].action = UIStart
        /\ stack[1].prev.phase = IDLE
        /\ stack[1].next.phase = RECORDING
        /\ Len(stack) > 1 =>
              stack[2].action = ASRDone(stack[1].prev.session_id + 1, None,
                                        ErrStartFailed)
        /\ Len(stack) = 1 =>
              /\ state.phase = IDLE
              /\ state.error = ErrStartFailed
              /\ state.session_id = stack[1].prev.session_id + 1
              /\ \A i \in 1..Len(workers) :
                    workers[i].session # state.session_id
              /\ \A i \in 1..Len(idle) :
                    idle[i].session_id # state.session_id
              /\ CopiesOf(state.session_id) = {}

\* C19 witness: dispatch(UIStart) is about to return after a failed start,
\* with the LLM enabled, and it was not the first session
C19_Witness ==
    /\ StartFailed
    /\ Len(stack) = 1
    /\ stack[1].pc = 6
    /\ state.llm_enabled
    /\ state.session_id = 2
    /\ Len(copied) = 1

\* C20 (as stated): no exception a collaborator raises inside an effect
\* handler leaves Store.dispatch.
C20_NoExceptionLeavesDispatch == raised = NoException

(***************************************************************************)
(* Claims about the Store, checked under StoreSpec.                        *)
(***************************************************************************)
\* the calls of dispatch in progress, on every thread and at every depth
Frames == UNION {{threads[t][k] : k \in 1..Len(threads[t])} : t \in Threads}

\* the call has made its reducer step
Swapped(f) == f.next # Unassigned

\* thread t is inside the `with self._lock` block of a dispatch
InCritical(t) == threads[t] # <<>> /\ Cur(t).pc \in {"swap", "unlock"}

\* C13: when several threads call dispatch concurrently, the
\* read-reduce-swap of each call is serialized by the lock: at most one
\* thread is inside the block, and the transitions form one chain, the prev
\* of each being the snapshot its swap replaced (the next of the transition
\* applied immediately before it) and its next the reducer's result on it.
C13_DispatchIsSerialized ==
    /\ \A t, u \in Threads : (InCritical(t) /\ InCritical(u)) => t = u
    /\ \A f \in Frames :
          Swapped(f) => /\ f.prev = f.over
                        /\ f.next = reduce(f.over, f.action)

\* C13 witness: two dispatches overlap, on two threads; the one of thread 2
\* was applied right after the one of thread 1, and both changed the state
C13_Witness ==
    /\ threads[1] # <<>> /\ threads[2] # <<>>
    /\ Cur(1).pc = "notify"
    /\ Cur(2).pc = "unlock"
    /\ Cur(1).prev # Cur(1).next
    /\ Cur(2).over = Cur(1).next
    /\ Cur(2).next # Cur(2).prev

\* C14: a dispatch called from inside an effect handler never deadlocks: the
\* lock is held by a thread only inside the reducer step, never while the
\* subscribers are scheduled or the handlers run, so a thread entering a
\* nested dispatch never waits for itself, and every thread inside a
\* dispatch can take its next step or waits for a thread that can.
C14_NestedDispatchDoesNotDeadlock ==
    /\ \A t \in Threads : lock = t => InCritical(t)
    /\ \A t \in Threads : AtStep(t, "lock") => lock # t
    /\ \A t \in Threads :
          threads[t] # <<>> =>
              \/ ENABLED DispatchStep(t)
              \/ lock \in Threads \ {t} /\ ENABLED DispatchStep(lock)

\* C14 witness: in synchronous mode thread 1 is three dispatches deep (UIStop,
\* ASRDone from ASREffect, LLMDone from LLMEffect) and holds the lock for the
\* innermost one
C14_Witness ==
    /\ Len(threads[1]) = 3
    /\ threads[1][1].pc = "LLMEffect"
    /\ threads[1][2].pc = "FinalizeEffect"
    /\ Cur(1).action.type = "LLMDone"
    /\ Cur(1).pc = "unlock"
    /\ lock = 1

\* C15: the snapshot a dispatch passes to the subscribers and the
\* (action, prev, next) it passes to every handler are those of its own
\* reducer step, also when self._state has been replaced since.
C15_ArgsAreOwnReducerStep ==
    \A f \in Frames :
        /\ Swapped(f) => f.next = reduce(f.prev, f.action)
        /\ \A i \in 1..Len(f.calls) :
              f.calls[i].args = IF f.calls[i].what = "idle_add"
                                THEN <<f.next>>
                                ELSE <<f.action, f.prev, f.next>>

\* C15 witness: thread 1 is returning from a UIStart whose nested dispatch
\* (failed start) replaced the state before handlers 2 to 6 were called, and
\* thread 2 from a UIToggleLLM, which nests nothing (another thread replaced
\* the state)
C15_Witness ==
    /\ Len(threads[1]) = 1 /\ Len(threads[2]) = 1
    /\ Cur(1).pc = "return" /\ Cur(2).pc = "return"
    /\ Cur(1).action = UIStart /\ Cur(1).next.phase = RECORDING
    /\ Cur(2).action = UIToggleLLM
    /\ Cur(1).stale /\ Cur(2).stale
    /\ Len(Cur(1).calls) = 8 /\ Len(Cur(2).calls) = 8

\* the order in which create_with_defaults registers the effects
RegistrationOrder ==
    <<"StartRecordingEffect", "ASREffect", "LLMEffect", "FinalizeEffect",
      "RestartEffect", "SettingsPersistenceEffect">>

\* what a dispatch passes, in order, from its reducer step to its return
ExpectedCalls(f) ==
    [i \in 1..Len(f.registered) |->
        [what |-> "idle_add", fn |-> f.registered[i], args |-> <<f.next>>]]
    \o [i \in 1..6 |->
        [what |-> RegistrationOrder[i], args |-> <<f.action, f.prev, f.next>>]]

\* how many of them it has made when it is at pc
CallsMadeAt(f) ==
    IF f.pc \in {"lock", "swap", "unlock", "notify"} THEN 0
    ELSE IF f.pc = "return" THEN Len(f.registered) + 6
    ELSE Len(f.registered)
         + (CHOOSE i \in 1..6 : RegistrationOrder[i] = f.pc) - 1

\* C16: every dispatch, whether or not it changed the state, first schedules
\* every subscriber (with its next) and then calls every handler exactly
\* once, in the order StartRecording, ASR, LLM, Finalize, Restart,
\* SettingsPersistence, each with the same (action, prev, next).
C16_SubscribersThenEffectsInOrder ==
    \A f \in Frames :
        /\ f.pc \in {"lock", "swap", "unlock", "notify", "return"}
                    \cup {RegistrationOrder[i] : i \in 1..6}
        /\ f.pc \notin {"lock", "swap", "unlock", "notify"} => f.registered = subs
        /\ f.calls = SubSeq(ExpectedCalls(f), 1, CallsMadeAt(f))

\* C16 witness: a dispatch that did not change the state (a completion event
\* of a session that is over) returns after its two idle_add and six handler
\* calls
C16_Witness ==
    \E f \in Frames :
        /\ f.pc = "return"
        /\ f.action.type = "ASRDone"
        /\ f.action.session_id # f.prev.session_id
        /\ f.prev = f.next
        /\ Len(f.calls) = 8

\* C18: every completion event that comes from ASREffect, LLMEffect or
\* RestartEffect (and the one StartRecordingEffect dispatches) carries the
\* session_id of the next snapshot of the dispatch whose handler launched
\* the task: while the task runs, while the callback waits in the idle
\* queue, and when it is dispatched.
C18_CompletionCarriesLaunchSession ==
    /\ \A i \in 1..Len(workers) : workers[i].session = workers[i].launcher
    /\ \A i \in 1..Len(idle) : idle[i].event.session_id = idle[i].launcher
    /\ \A f \in Frames :
          f.launcher # NoLauncher =>
              /\ f.action.type \in {"ASRDone", "LLMDone", "RestartDone"}
              /\ f.action.session_id = f.launcher

\* C18 witness: the ASRDone of a task launched for session 1 is dispatched
\* when the store is in session 2
C18_Witness ==
    \E f \in Frames :
        /\ f.launcher = 1
        /\ f.action.type = "ASRDone"
        /\ f.action.error # ErrStartFailed
        /\ f.pc = "swap"
        /\ f.prev.session_id = 2
(***************************************************************************)
(* Claims about subscriptions, checked under SubscriberSpec.               *)
(***************************************************************************)
\* how often fn is in the list
Count(list, fn) == Cardinality({i \in 1..Len(list) : list[i] = fn})

\* the subscriptions of fn whose closure has not been called
Live(fn) == {c \in 1..Len(closures) : closures[c].fn = fn /\ closures[c].called = 0}

\* C17 (as stated): subscribe(fn) calls fn once, at once, with the current
\* snapshot; every later dispatch schedules fn (fn is in the list once for
\* each subscription whose closure has not been called); once the closure
\* has been called no later dispatch schedules fn for that subscription; and
\* a second call of the closure has no effect (a closure removes at most one
\* entry of the list however often it is called).
C17_SubscribeAndUnsubscribe ==
    /\ \A c \in 1..Len(closures) : Len(closures[c].first) = 1
    /\ \A fn \in Fns : Count(subs, fn) = Cardinality(Live(fn))
    /\ \A f \in Frames :
          f.pc \notin {"lock", "swap", "unlock", "notify"} =>
              \A fn \in Fns :
                  Count(f.registered, fn)
                      = Cardinality({i \in 1..Len(f.calls) :
                                       /\ f.calls[i].what = "idle_add"
                                       /\ f.calls[i].fn = fn
                                       /\ f.calls[i].args = <<f.next>>})
    /\ \A c \in 1..Len(closures) : closures[c].removed <= 1
(***************************************************************************)
(* Claims about FinalizeEffect and the other effects.                      *)
(***************************************************************************)
\* the step of Spec in which FinalizeEffect.handle runs for the dispatch on
\* top of the stack (a worker finishing leaves the stack as it is)
FinalizeStep == stack # <<>> /\ Top.pc = 4 /\ stack' # stack

\* C21: on the LLM path FinalizeEffect makes no copy when it handles an
\* ASRDone of the current session with non-empty text applied while
\* llm_enabled is true, and exactly one copy when it handles an LLMDone of
\* the current session with non-empty text; the text copied is the
\* smart-text transform of the text of LLMDone, not of recognized_text.
C21_LLMPathCopiesProcessedText ==
    [][FinalizeStep =>
         /\ ( /\ Top.action.type = "ASRDone"
              /\ Top.action.session_id = Top.next.session_id
              /\ Truthy(Top.action.text)
              /\ Top.prev.llm_enabled )
            => copied' = copied
         /\ ( /\ Top.action.type = "LLMDone"
              /\ Top.action.session_id = Top.next.session_id
              /\ Truthy(Top.action.text) )
            => /\ Len(copied') = Len(copied) + 1
               /\ SubSeq(copied', 1, Len(copied)) = copied
               /\ copied'[Len(copied')].text
                      = smart_process(Top.next, Top.action.text)
               /\ copied'[Len(copied')].session_id = Top.action.session_id
               /\ CopiesOf(Top.action.session_id) = {}
    ]_vars

\* C21 witness: FinalizeEffect has handled an LLMDone whose text differs from
\* recognized_text, with smart processing on; the one copy of the session is
\* the transform of the LLMDone text
C21_Witness ==
    /\ stack # <<>>
    /\ Top.pc = 5
    /\ Top.action.type = "LLMDone"
    /\ Top.action.text = TextOk
    /\ Top.next.recognized_text = TextHi
    /\ Top.next.smart_text_processing
    /\ Top.next.smart_short_phrase_words = 3
    /\ Cardinality(CopiesOf(Top.next.session_id)) = 1
    /\ copied[Len(copied)].text = Str(<<"o", "k", " ", "o", "k">>)
\* recognition has returned a non-empty text and no error for session n: its
\* ASRDone is being dispatched
Recognised(n) ==
    \E k \in 1..Len(stack) :
        /\ stack[k].action.type = "ASRDone"
        /\ stack[k].action.session_id = n
        /\ Truthy(stack[k].action.text)
        /\ stack[k].action.error = None

\* C22: if the workers finish and the main loop runs the completion
\* callbacks, every session in which recognition returns a non-empty text
\* and no error is eventually finalized by one copy, its only one, and the
\* copies are made in the order of the sessions, so before any copy of a
\* later session; with the LLM disabled, enabled, or toggled at any moment.
C22_RecognisedSessionIsFinalized ==
    /\ \A n \in 1..MaxSession :
          Recognised(n) ~> (Cardinality(CopiesOf(n)) = 1)
    /\ [](\A i, j \in 1..Len(copied) :
              i < j => copied[i].session_id < copied[j].session_id)

\* C22 witness: session 1 was finalized with the recognised text (the LLM
\* was off when its ASRDone came) and session 2, after it, with the text of
\* the LLM, which was switched off again while it worked
C22_Witness ==
    /\ Len(copied) = 2
    /\ copied[1].session_id = 1 /\ copied[1].text = TextHi
    /\ copied[2].session_id = 2 /\ copied[2].text = TextOk
    /\ ~state.llm_enabled
    /\ state.processed_text = TextOk
    /\ stack = <<>> /\ workers = <<>> /\ idle = <<>>
\* the text without its last character, if that is a period
StripOnePeriod(s) ==
    IF Len(s) > 0 /\ s[Len(s)] = "." THEN SubSeq(s, 1, Len(s) - 1) ELSE s

\* C23 (as stated): smart_process returns the text unchanged when
\* smart_text_processing is off; when it is on and the text has at most
\* smart_short_phrase_words words, the lower-cased text with exactly one
\* trailing period removed, if there is one; otherwise the text followed by
\* " \n".  For every text, also one that ends in several periods, and the
\* empty and the blank text.
C23_SmartProcessAsStated ==
    pure.fn = "smart_process" =>
        pure.result =
            IF ~pure.smart_text_processing
            THEN Str(pure.text)
            ELSE IF WordCount(pure.text) <= pure.smart_short_phrase_words
            THEN Str(StripOnePeriod(Lower(pure.text)))
            ELSE Str(pure.text \o <<" ", "\n">>)
\* C24 (as stated): during Finalize the delayed paste is scheduled only when
\* auto_paste is on and the copy call before it reported success; after a
\* copy that returned False no paste is scheduled, and with auto_paste off
\* none ever is.
C24_PasteOnlyAfterSuccessfulCopy ==
    \A i \in 1..Len(copied) :
        copied[i].paste => (state.auto_paste /\ copied[i].ok)
\* the step of Spec in which SettingsPersistenceEffect.handle runs for the
\* dispatch on top of the stack, which then returns
SettingsStep == stack # <<>> /\ Top.pc = 6 /\ stack' # stack

\* one of the five configuration fields differs
ConfigDiffers(prev, next) ==
    \/ prev.llm_enabled # next.llm_enabled
    \/ prev.auto_paste # next.auto_paste
    \/ prev.copy_method # next.copy_method
    \/ prev.smart_text_processing # next.smart_text_processing
    \/ prev.smart_short_phrase_words # next.smart_short_phrase_words

WorkerStep == Len(workers') < Len(workers)

\* a step in which a worker thread is started
LaunchStep == Len(workers') > Len(workers)

\* C26: in asynchronous mode run_async returns at once (the handler that
\* called it goes on while the task is still running), the work runs on a
\* worker thread, and the worker never runs the callback: when it finishes it
\* only queues the completion callback for the main loop, leaving the
\* snapshot, the dispatches in progress, the clipboard and the settings as
\* they are; the completion event is dispatched by the main loop, outside
\* every other dispatch.
C26_WorkerOnlyQueuesCallback ==
    /\ [][/\ LaunchStep =>
               /\ ~sync_mode
               /\ stack # <<>>
               /\ Len(stack') = Len(stack)
               /\ stack'[Len(stack)].pc = Top.pc + 1
               /\ state' = state /\ idle' = idle
               /\ workers' = Append(workers, workers'[Len(workers')])
          /\ WorkerStep =>
               /\ state' = state /\ stack' = stack
               /\ copied' = copied /\ saved' = saved
               /\ Len(idle') = Len(idle) + 1
               /\ SubSeq(idle', 1, Len(idle)) = idle
               /\ IsCompletion(idle'[Len(idle')])
          /\ Len(idle') < Len(idle) =>
               /\ stack = <<>>
               /\ stack' = <<[action |-> Head(idle), prev |-> state,
                              next |-> state', pc |-> 1, started |-> "none"]>>
       ]_vars
    /\ [](sync_mode => (workers = <<>> /\ idle = <<>>))
    /\ [](~sync_mode =>
            \A k \in 2..Len(stack) :
                stack[k].action = ASRDone(stack[k - 1].next.session_id, None,
                                          ErrStartFailed))

\* C26 witness: asynchronous mode; ASREffect has returned from run_async and
\* the dispatch of UIStop is at its next handler while the recognition is
\* still running on its worker thread
C26_Witness ==
    /\ ~sync_mode
    /\ Len(stack) = 1
    /\ Top.action = UIStop
    /\ Top.pc = 3
    /\ Len(workers) = 1
    /\ workers[1].kind = "asr"
    /\ state.phase = PROCESSING
    /\ idle = <<>>
\* a dispatch(UIStop) issued in RECORDING by the main thread, in synchronous
\* mode, is at the bottom of the stack
SyncStop ==
    /\ sync_mode
    /\ stack # <<>>
    /\ stack[1].action = UIStop
    /\ stack[1].prev.phase = RECORDING

\* C27: in synchronous mode run_async runs the task and then the callback
\* in-line, so the whole pipeline runs nested inside a dispatch(UIStop) issued
\* in RECORDING: no worker thread and no idle callback ever exists; ASRDone of
\* the session is dispatched inside ASREffect's call, on the snapshot UIStop
\* produced, and LLMDone inside LLMEffect's call of that ASRDone, on the
\* snapshot ASRDone produced (POST_PROCESSING); and once ASREffect has
\* returned, so when dispatch(UIStop) returns too, the phase is IDLE, ASRDone
\* has been applied (a recognised text or an error), LLMDone has been applied
\* when the LLM is on and a text was recognised, and FinalizeEffect has copied
\* at most once for the session: once when a text was recognised, never
\* otherwise.
C27_SyncPipelineRunsNested ==
    SyncStop =>
      LET sid == stack[1].next.session_id IN
      /\ workers = <<>> /\ idle = <<>>
      /\ stack[1].next.phase = PROCESSING
      /\ Len(stack) <= 3
      /\ stack[1].pc < 2 => (Len(stack) = 1 /\ state = stack[1].next)
      /\ Len(stack) >= 2 =>
            /\ stack[1].pc = 3
            /\ stack[2].action.type = "ASRDone"
            /\ stack[2].action.session_id = sid
            /\ stack[2].prev = stack[1].next
      /\ Len(stack) = 3 =>
            /\ stack[2].pc = 4
            /\ stack[2].next.phase = POST_PROCESSING
            /\ stack[3].action.type = "LLMDone"
            /\ stack[3].action.session_id = sid
            /\ stack[3].prev = stack[2].next
      /\ (Len(stack) = 1 /\ stack[1].pc >= 3) =>
            /\ state.phase = IDLE
            /\ state.session_id = sid
            /\ Truthy(state.recognized_text) \/ Truthy(state.error)
            /\ (state.llm_enabled /\ Truthy(state.recognized_text)) =>
                   (Truthy(state.processed_text) \/ Truthy(state.error))
            /\ Cardinality(CopiesOf(sid)) <= 1
            /\ Cardinality(CopiesOf(sid)) = 1 <=> Truthy(state.recognized_text)

\* C27 witness: synchronous mode with the LLM on; dispatch(UIStop) is about to
\* return, the phase is IDLE, a processed text is there and one copy was made
C27_Witness ==
    /\ SyncStop
    /\ Len(stack) = 1
    /\ stack[1].pc = 6
    /\ state.llm_enabled
    /\ state.phase = IDLE
    /\ Truthy(state.processed_text)
    /\ Cardinality(CopiesOf(state.session_id)) = 1
\* the last event was an ASRDone of the current session with a text and no error
RecognisedEvent ==
    /\ last.action.type = "ASRDone"
    /\ last.action.session_id = last.prev.session_id
    /\ Truthy(last.action.text)
    /\ ~Truthy(last.action.error)

\* C28: for every ASRDone of the current session with a non-empty text and no
\* error, whatever the state it is applied to, exactly one of the two happens
\* in its effects: LLMEffect launches the post-processing, exactly when
\* next.llm_enabled, or FinalizeEffect copies the transform of the recognised
\* text, exactly when not next.llm_enabled; and for every event FinalizeEffect
\* copies only when next.phase is IDLE.
C28_ExactlyOneOfLLMAndFinalize ==
    /\ RecognisedEvent =>
          /\ LLMTrigger(last.action, last.prev, state)
                # (FinalizeEffect_copies(last.action, last.prev, state) # <<>>)
          /\ LLMTrigger(last.action, last.prev, state) <=> state.llm_enabled
          /\ ~state.llm_enabled =>
                FinalizeEffect_copies(last.action, last.prev, state) =
                    <<copy_paste(state, smart_process(state, state.recognized_text), TRUE)>>
    /\ FinalizeEffect_copies(last.action, last.prev, state) # <<>> => state.phase = IDLE

\* C28 witness: an ASRDone with a text and no error was applied with the LLM
\* off to a session in PROCESSING: FinalizeEffect copies, LLMEffect does not run
C28_Witness ==
    /\ RecognisedEvent
    /\ last.prev.phase = PROCESSING
    /\ ~state.llm_enabled
    /\ ~LLMTrigger(last.action, last.prev, state)
    /\ Len(FinalizeEffect_copies(last.action, last.prev, state)) = 1

\* the last event was an LLMDone of the current session that the reducer takes
\* as a failure: it carries an error or no text
FailedLLMEvent ==
    /\ last.action.type = "LLMDone"
    /\ last.action.session_id = last.prev.session_id
    /\ Truthy(last.action.error) \/ ~Truthy(last.action.text)

C30_LLMLaunchedOnlyInPostProcessing ==
    LLMTrigger(last.action, last.prev, state) => state.phase = POST_PROCESSING
\* the phase in which the effect that launches a task, or produces a
\* completion event, is triggered
LaunchPhase(a) ==
    CASE a.type = "ASRDone" ->
            IF a.error = ErrStartFailed THEN RECORDING ELSE PROCESSING
      [] a.type = "LLMDone" -> POST_PROCESSING
      [] a.type = "RestartDone" -> RESTARTING

\* C31: in every reachable state of the full system at most one task launched
\* by ASREffect, LLMEffect or RestartEffect is in flight (running, or finished
\* with its completion callback still queued), and while it is in flight the
\* phase is PROCESSING, POST_PROCESSING or RESTARTING respectively.
C31_AtMostOneTaskInFlight ==
    /\ Len(workers) + Len(idle) <= 1
    /\ \A i \in 1..Len(workers) :
          state.phase = CASE workers[i].kind = "asr" -> PROCESSING
                          [] workers[i].kind = "llm" -> POST_PROCESSING
                          [] workers[i].kind = "restart" -> RESTARTING
    /\ \A i \in 1..Len(idle) : state.phase = LaunchPhase(idle[i])

\* C31 witness: asynchronous mode, the post-processing is running on its
\* worker thread, no dispatch is in progress and the phase is POST_PROCESSING
C31_Witness ==
    /\ ~sync_mode
    /\ stack = <<>>
    /\ idle = <<>>
    /\ Len(workers) = 1
    /\ workers[1].kind = "llm"
    /\ state.phase = POST_PROCESSING

\* C32: every completion event the effects produce is applied while the
\* store's session_id equals the event's: the snapshot it is applied to has
\* the session_id of the event, and so has the current snapshot as long as
\* the event is in flight.
C32_CompletionAppliedInItsSession ==
    /\ \A k \in 1..Len(stack) :
          IsCompletion(stack[k].action) =>
              /\ stack[k].action.session_id = stack[k].prev.session_id
              /\ stack[k].action.session_id = stack[k].next.session_id
    /\ \A i \in 1..Len(workers) : workers[i].session = state.session_id
    /\ \A i \in 1..Len(idle) : idle[i].session_id = state.session_id

\* C32 witness: the second session was restarted; the RestartDone of session 2
\* is being dispatched by the main loop, on a snapshot of session 2
C32_Witness ==
    /\ Len(stack) = 1
    /\ stack[1].action.type = "RestartDone"
    /\ stack[1].action.session_id = 2
    /\ stack[1].prev.session_id = 2
    /\ stack[1].pc = 1

\* C33: every completion event the effects produce is applied in the phase
\* that launched it: an ASRDone of ASREffect in PROCESSING, the ASRDone of
\* StartRecordingEffect in RECORDING, an LLMDone in POST_PROCESSING and a
\* RestartDone in RESTARTING.
C33_CompletionAppliedInItsPhase ==
    \A k \in 1..Len(stack) :
        IsCompletion(stack[k].action) =>
            stack[k].prev.phase = LaunchPhase(stack[k].action)

\* C33 witness: StartRecordingEffect is handling a UIStart whose
\* speech.start() answered False: its ASRDone is dispatched, nested, on the
\* RECORDING snapshot
C33_Witness ==
    /\ Len(stack) = 2
    /\ stack[1].action = UIStart
    /\ stack[2].action.type = "ASRDone"
    /\ stack[2].action.error = ErrStartFailed
    /\ stack[2].prev.phase = RECORDING
    /\ stack[2].next.phase = IDLE
\* no call of Store.dispatch is in progress on any thread
Quiet == \A t \in Threads : threads[t] = <<>>

\* C34: the main loop runs the callbacks of GLib.idle_add in the order of the
\* calls, so the snapshot a subscriber receives last is the one of the latest
\* call GLib.idle_add(fn, next_state).  Once every dispatch has finished, on
\* every thread, that snapshot is the store's current state.
C34_LastSnapshotShownIsCurrent ==
    (Quiet /\ shown # NoSnapshot) => shown = state
\* the number of effects in Store._effects
NEffects == Len(Effects)

\* the dispatch in frame k of the main thread has called its first i handlers
\* (the i-th may be the one that is running a nested dispatch)
Invoked(k) == stack[k].pc - 1

\* C35: the handlers see the events in the order they were applied: for an
\* event e1 applied before e2, every handler has been invoked for e1 before
\* one is invoked for e2.  On the main thread the dispatch in frame k + 1 was
\* applied after the one in frame k, which called it from one of its handlers.
C35_HandlersInOrderOfEvents ==
    \A k \in 1..(Len(stack) - 1) :
        Invoked(k + 1) > 0 => Invoked(k) = NEffects
(***************************************************************************)
(* RealSpec: the full system of Spec with the real SpeechService behind    *)
(* StartRecordingEffect, ASREffect and RestartEffect: what start() answers *)
(* and what the tasks return depends on the capture flag is_recording.     *)
(***************************************************************************)
\* SpeechService.start(): False when already recording, else True
start_ok(sp) == ~sp.is_recording

\* the service after start()
after_start(sp) ==
    IF sp.is_recording
    THEN sp
    ELSE [sp EXCEPT !.is_recording = TRUE, !.recording = <<>>]

\* the service after stop()
after_stop(sp) ==
    IF ~sp.is_recording
    THEN sp
    ELSE [sp EXCEPT !.is_recording = FALSE, !.recording = <<>>]

\* stop_and_recognize() that leaves the capture flag set
after_stop_and_recognize_keeps_flag(sp) == sp

\* the service after stop_and_recognize(): the flag is cleared before the
\* buffer is looked at, saved and recognised
after_stop_and_recognize(sp) == [sp EXCEPT !.is_recording = FALSE]

\* what the closure task of an effect returns with the real service:
\* stop_and_recognize() answers None when not recording, else a text or None,
\* or raises (_save_wav); the restart task answers what start() answers
\* after stop()
RealTaskResults(t, sp) ==
    CASE t.kind = "asr" -> IF sp.is_recording THEN ASRResults ELSE {<<None, None>>}
      [] t.kind = "llm" -> LLMResults(t.text)
      [] t.kind = "restart" -> {<<start_ok(after_stop(sp)), None>>}

\* the service after the task has run
after_task(t, sp) ==
    CASE t.kind = "asr" -> after_stop_and_recognize(sp)
      [] t.kind = "llm" -> sp
      [] t.kind = "restart" -> after_start(after_stop(sp))

\* run_async(task, done) with a task that uses the real service
real_run_async(t) ==
    IF sync_mode
    THEN /\ \E r \in RealTaskResults(t, speech) : dispatch(done(t, r), Advanced)
         /\ speech' = after_task(t, speech)
         /\ UNCHANGED workers
    ELSE /\ workers' = Append(workers, t)
         /\ stack' = Advanced
         /\ UNCHANGED <<state, speech>>

\* a worker thread runs its task to the end and calls
\* GLib.idle_add(callback, result)
RealWorkerFinish(i) ==
    /\ \E r \in RealTaskResults(workers[i], speech) :
          idle' = Append(idle, done(workers[i], r))
    /\ speech' = after_task(workers[i], speech)
    /\ workers' = SubSeq(workers, 1, i - 1) \o SubSeq(workers, i + 1, Len(workers))
    /\ UNCHANGED <<state, last, sync_mode, pure, shown, raised, store_vars, stack, copied, saved>>

RealStartRecordingEffect_handle ==
    /\ stack # <<>>
    /\ Top.pc = 1
    /\ IF StartRecordingTrigger(Top.action, Top.prev, Top.next)
       THEN /\ IF start_ok(speech)
               THEN stack' = Started(TRUE) /\ UNCHANGED state
               ELSE dispatch(start_failed_event(Top.prev, Top.next),
                             Started(FALSE))
            /\ speech' = after_start(speech)
       ELSE stack' = Advanced /\ UNCHANGED <<state, speech>>
    /\ UNCHANGED <<last, sync_mode, pure, shown, raised, store_vars, workers, idle, copied, saved>>

RealASREffect_handle ==
    /\ stack # <<>>
    /\ Top.pc = 2
    /\ IF ASRTrigger(Top.action, Top.prev, Top.next)
       THEN real_run_async(Task("asr", Top.next.session_id, None))
       ELSE stack' = Advanced /\ UNCHANGED <<state, workers, speech>>
    /\ UNCHANGED <<last, sync_mode, pure, shown, raised, store_vars, idle, copied, saved>>

RealRestartEffect_handle ==
    /\ stack # <<>>
    /\ Top.pc = 5
    /\ IF RestartTrigger(Top.action, Top.prev, Top.next)
       THEN real_run_async(Task("restart", Top.next.session_id, None))
       ELSE stack' = Advanced /\ UNCHANGED <<state, workers, speech>>
    /\ UNCHANGED <<last, sync_mode, pure, shown, raised, store_vars, idle, copied, saved>>

RealNext ==
    \/ \E a \in {UIStart, UIStop, UIRestart, UIToggleLLM} : UserDispatch(a)
    \/ \E i \in 1..Len(workers) : RealWorkerFinish(i)
    \/ MainLoopIdle
    \/ RealStartRecordingEffect_handle
    \/ RealASREffect_handle
    \/ LLMEffect_handle
    \/ FinalizeEffect_handle
    \/ RealRestartEffect_handle
    \/ SettingsPersistenceEffect_handle

RealSpec == Init /\ [][RealNext]_vars

\* C36: with the real SpeechService, whenever no dispatch is in progress the
\* capture flag agrees with the phase: IDLE or POST_PROCESSING implies
\* is_recording false, RECORDING implies is_recording true; and
\* speech.start() called by StartRecordingEffect never answers False.
C36_CaptureFlagAgreesWithPhase ==
    /\ stack = <<>> =>
          /\ state.phase \in {IDLE, POST_PROCESSING} => ~speech.is_recording
          /\ state.phase = RECORDING => speech.is_recording
    /\ \A k \in 1..Len(stack) : stack[k].started # "failed"

\* C36 witness: the first session was finalized and the second is recording;
\* no dispatch is in progress, no task is in flight and the capture flag is set
C36_Witness ==
    /\ stack = <<>>
    /\ workers = <<>> /\ idle = <<>>
    /\ state.phase = RECORDING
    /\ state.session_id = 2
    /\ speech.is_recording
    /\ copied # <<>>
(***************************************************************************)
(* SetupSpec: RecognitionWindow.create_with_defaults builds the services   *)
(* from the environment (AppConfig) and the initial State from the saved   *)
(* settings over the environment; then FinalizeEffect.copy_paste is called *)
(* once on that state.                                                     *)
(***************************************************************************)
\* a value of FSTT_CLIPBOARD_COPY_METHOD, or of "copy_method" in
\* settings.json, that is neither "clipboard" nor "primary"
OtherMethod == "other"

CopyMethods == {"clipboard", "primary", OtherMethod}

\* AppSettings as read from the environment
Environments ==
    [LLM_ENABLED : BOOLEAN, AUTO_PASTE : BOOLEAN, COPY_METHOD : CopyMethods]

\* the dict load_settings returns: a key is absent (<<>>) or has a value
SavedSettings ==
    [llm_enabled : {<<>>, <<TRUE>>, <<FALSE>>},
     auto_paste : {<<>>, <<TRUE>>, <<FALSE>>},
     copy_method : {<<>>} \cup {<<m>> : m \in CopyMethods}]

\* dict.get(key, default)
Get(entry, default) == IF entry = <<>> THEN default ELSE entry[1]

\* ServiceFactory.create_all_services: create_paste(config.settings.COPY_METHOD)
create_paste(env, settings) == env.COPY_METHOD

\* PasteService.paste: the method it calls
paste(copy_method) ==
    IF copy_method = "primary" THEN "_paste_primary"
    ELSE IF copy_method = "clipboard" THEN "_paste_clipboard"
    ELSE "_paste_clipboard"

\* the initial State of create_with_defaults
initial_state(env, settings) ==
    [InitialState(DefaultConfig) EXCEPT
        !.llm_enabled = Get(settings.llm_enabled, env.LLM_ENABLED),
        !.auto_paste = Get(settings.auto_paste, env.AUTO_PASTE),
        !.copy_method = Get(settings.copy_method, env.COPY_METHOD)]

SetupInit ==
    /\ state = InitialState(DefaultConfig)
    /\ last = [action |-> NotAnAction, prev |-> state]
    /\ SystemAtRest

\* create_with_defaults with the environment env and the saved settings
create_with_defaults(env, settings) ==
    /\ pure = NoCall
    /\ state' = initial_state(env, settings)
    /\ pure' = [fn |-> "create_with_defaults",
                env |-> env, settings |-> settings,
                paste_copy_method |-> create_paste(env, settings),
                pasted |-> "none"]
    /\ UNCHANGED <<last, sync_mode, shown, speech, stack, workers, idle, copied, saved,
                   raised, store_vars>>

\* FinalizeEffect.copy_paste(state, text), and the callback of
\* GLib.timeout_add: self.paste.paste()
SetupCopyPaste ==
    /\ pure # NoCall
    /\ copied = <<>>
    /\ copied' = <<copy_paste(state, TextHi, TRUE)>>
    /\ pure' = [pure EXCEPT !.pasted = IF paste_scheduled(state, TRUE)
                                       THEN paste(pure.paste_copy_method)
                                       ELSE "none"]
    /\ UNCHANGED <<state, last, sync_mode, shown, speech, stack, workers, idle, saved,
                   raised, store_vars>>

SetupNext ==
    \/ \E env \in Environments, settings \in SavedSettings :
          create_with_defaults(env, settings)
    \/ SetupCopyPaste

SetupSpec == SetupInit /\ [][SetupNext]_vars

\* C37: the paste Finalize schedules pastes from the selection Finalize
\* copied to: the standard-clipboard paste when state.copy_method is
\* "clipboard" (copy_standard was called), the primary-selection paste when
\* it is "primary" (copy_primary was called), for every environment and
\* every saved settings the system is built from.
C37_PasteFromTheSelectionCopiedTo ==
    \A i \in 1..Len(copied) :
        copied[i].paste =>
            /\ state.copy_method = "clipboard" => pure.pasted = "_paste_clipboard"
            /\ state.copy_method = "primary" => pure.pasted = "_paste_primary"
            /\ copied[i].call = "copy_standard" <=> pure.pasted = "_paste_clipboard"
\* the phases in which _render_state disables the buttons
Busy == state.phase \in {PROCESSING, POST_PROCESSING, RESTARTING}

\* C38: with worker tasks that terminate and a main loop that comes to the
\* queued callbacks, PROCESSING, POST_PROCESSING and RESTARTING are
\* transient: from every reachable state in one of them the system reaches
\* IDLE or RECORDING, whether or not the user dispatches anything more.
C38_BusyPhasesAreTransient ==
    Busy ~> (state.phase \in {IDLE, RECORDING})

\* C38 witness: a restart is in progress: the phase is RESTARTING, the
\* dispatch of UIRestart has returned and the task runs on its worker thread
C38_Witness ==
    /\ Busy
    /\ state.phase = RESTARTING
    /\ stack = <<>>
    /\ Len(workers) = 1
    /\ workers[1].kind = "restart"
(***************************************************************************)
(* AudioSpec: the SpeechService with its two threads.  The audio callback  *)
(* of sounddevice runs on its own thread (cb); start(), stop() and         *)
(* stop_and_recognize() are called one after the other (op), each a        *)
(* sequence of steps.  A chunk in the buffer is written as the epoch at    *)
(* which its callback read is_recording.                                   *)
(***************************************************************************)
\* the recordings start() may begin
MaxEpoch == 3

\* the chunks the buffer may hold
MaxChunks == 2

AudioInit ==
    /\ state = InitialState(DefaultConfig)
    /\ last = [action |-> NotAnAction, prev |-> state]
    /\ SystemAtRest

\* callback: `if self.is_recording:` found true
CallbackCheck ==
    /\ speech.cb = "rest"
    /\ speech.is_recording
    /\ Len(speech.recording) < MaxChunks
    /\ speech' = [speech EXCEPT !.cb = "checked", !.observed = speech.epoch]
    /\ UNCHANGED <<state, last, sync_mode, pure, shown, stack, workers, idle, copied, saved,
                   raised, store_vars>>

\* callback: `with self._stream_lock:` entered
CallbackLock ==
    /\ speech.cb = "checked"
    /\ speech.stream_lock = "free"
    /\ speech' = [speech EXCEPT !.cb = "locked", !.stream_lock = "cb"]
    /\ UNCHANGED <<state, last, sync_mode, pure, shown, stack, workers, idle, copied, saved,
                   raised, store_vars>>

\* callback: self.recording.append(indata.copy()), and the lock released
CallbackAppend ==
    /\ speech.cb = "locked"
    /\ speech' = [speech EXCEPT !.recording = Append(@, speech.observed), !.stream_lock = "free", !.cb = "rest"]
    /\ UNCHANGED <<state, last, sync_mode, pure, shown, stack, workers, idle, copied, saved,
                   raised, store_vars>>

\* start(): `if self.is_recording: return False` passed
StartCheck ==
    /\ speech.op = "rest"
    /\ ~speech.is_recording
    /\ speech.epoch < MaxEpoch
    /\ speech' = [speech EXCEPT !.op = "start_lock"]
    /\ UNCHANGED <<state, last, sync_mode, pure, shown, stack, workers, idle, copied, saved,
                   raised, store_vars>>

\* start(): `with self._stream_lock:` entered
StartLock ==
    /\ speech.op = "start_lock"
    /\ speech.stream_lock = "free"
    /\ speech' = [speech EXCEPT !.op = "start_reset", !.stream_lock = "op"]
    /\ UNCHANGED <<state, last, sync_mode, pure, shown, stack, workers, idle, copied, saved,
                   raised, store_vars>>

\* start(): self.is_recording = False
StartReset ==
    /\ speech.op = "start_reset"
    /\ speech' = [speech EXCEPT !.op = "start_clear", !.is_recording = FALSE]
    /\ UNCHANGED <<state, last, sync_mode, pure, shown, stack, workers, idle, copied, saved,
                   raised, store_vars>>

\* start(): self.recording = []
StartClear ==
    /\ speech.op = "start_clear"
    /\ speech' = [speech EXCEPT !.op = "start_set", !.recording = <<>>]
    /\ UNCHANGED <<state, last, sync_mode, pure, shown, stack, workers, idle, copied, saved,
                   raised, store_vars>>

\* start(): self.is_recording = True; a new recording begins
StartSet ==
    /\ speech.op = "start_set"
    /\ speech' = [speech EXCEPT !.op = "start_unlock", !.is_recording = TRUE, !.epoch = @ + 1]
    /\ UNCHANGED <<state, last, sync_mode, pure, shown, stack, workers, idle, copied, saved,
                   raised, store_vars>>

\* start(): the lock released, return True
StartUnlock ==
    /\ speech.op = "start_unlock"
    /\ speech' = [speech EXCEPT !.op = "rest", !.stream_lock = "free"]
    /\ UNCHANGED <<state, last, sync_mode, pure, shown, stack, workers, idle, copied, saved,
                   raised, store_vars>>

\* stop() or stop_and_recognize(): `if not self.is_recording: return` passed
StopCheck ==
    /\ speech.op = "rest"
    /\ speech.is_recording
    /\ speech' = [speech EXCEPT !.op = "stop_lock"]
    /\ UNCHANGED <<state, last, sync_mode, pure, shown, stack, workers, idle, copied, saved,
                   raised, store_vars>>

\* stop() or stop_and_recognize(): `with self._stream_lock:` entered
StopLock ==
    /\ speech.op = "stop_lock"
    /\ speech.stream_lock = "free"
    /\ speech' = [speech EXCEPT !.op = "stop_reset", !.stream_lock = "op"]
    /\ UNCHANGED <<state, last, sync_mode, pure, shown, stack, workers, idle, copied, saved,
                   raised, store_vars>>

\* stop() or stop_and_recognize(): self.is_recording = False
StopReset ==
    /\ speech.op = "stop_reset"
    /\ speech' = [speech EXCEPT !.op = "stop_buffer", !.is_recording = FALSE]
    /\ UNCHANGED <<state, last, sync_mode, pure, shown, stack, workers, idle, copied, saved,
                   raised, store_vars>>

\* stop(): self.recording = [], and the lock released
StopClear ==
    /\ speech.op = "stop_buffer"
    /\ speech' = [speech EXCEPT !.op = "rest", !.recording = <<>>, !.stream_lock = "free"]
    /\ UNCHANGED <<state, last, sync_mode, pure, shown, stack, workers, idle, copied, saved,
                   raised, store_vars>>

\* stop_and_recognize(): recording_copy = self.recording.copy(), and the lock
\* released; the buffer is left as it is
StopCopy ==
    /\ speech.op = "stop_buffer"
    /\ speech' = [speech EXCEPT !.op = "rest", !.stream_lock = "free"]
    /\ UNCHANGED <<state, last, sync_mode, pure, shown, stack, workers, idle, copied, saved,
                   raised, store_vars>>

AudioNext ==
    \/ CallbackCheck
    \/ CallbackLock
    \/ CallbackAppend
    \/ StartCheck
    \/ StartLock
    \/ StartReset
    \/ StartClear
    \/ StartSet
    \/ StartUnlock
    \/ StopCheck
    \/ StopLock
    \/ StopReset
    \/ StopClear
    \/ StopCopy

AudioSpec == AudioInit /\ [][AudioNext]_vars

\* C39: no chunk whose callback read is_recording during an earlier
\* recording is in the buffer of the recording a later start() began: every
\* chunk in the buffer was observed in the current recording.
C39_NoOldChunkInNewBuffer ==
    \A i \in 1..Len(speech.recording) : speech.recording[i] = speech.epoch
(***************************************************************************)
(* ProcessSpec: PostProcessingService.process(text), one call at a time,   *)
(* one step per HTTP attempt; what an attempt does is chosen by the        *)
(* environment: an answer with a content, or one of the exceptions.        *)
(***************************************************************************)
\* the largest LLM_MAX_RETRIES (FSTT_LLM_MAX_RETRIES; the default is 2)
MaxRetries == 3

\* the texts process is called with
ProcessTexts == {<<>>, <<"H", "i", ".">>}

\* the contents the LLM answers with
Contents == {<<>>, <<" ">>, <<"O", "k">>, <<" ", "O", "k", "\n">>}

\* what one attempt does: the answer is parsed (Answer), client.post or
\* raise_for_status raises (RequestError, HTTPStatusError), the answer has
\* not the expected shape (KeyError, IndexError), or anything else is raised
\* (e.g. the JSON error of response.json(), or the AttributeError of
\* None.strip())
Attempts ==
    {[kind |-> "Answer", content |-> c] : c \in Contents}
    \cup {[kind |-> k, content |-> <<>>] :
            k \in {"RequestError", "HTTPStatusError", "KeyError", "IndexError",
                   "Exception"}}

\* str.strip(): without the whitespace at both ends
RECURSIVE LStrip(_)
LStrip(s) == IF s # <<>> /\ IsSpace(Head(s)) THEN LStrip(Tail(s)) ELSE s

RECURSIVE RStrip(_)
RStrip(s) ==
    IF s # <<>> /\ IsSpace(s[Len(s)]) THEN RStrip(SubSeq(s, 1, Len(s) - 1)) ELSE s

Strip(s) == RStrip(LStrip(s))

\* the except clauses of process without the last one, `except Exception`
handler_without_catch_all(kind) ==
    CASE kind \in {"RequestError", "HTTPStatusError"} -> "continue"
      [] kind \in {"KeyError", "IndexError"} -> "break"
      [] OTHER -> "raise"

\* the except clause that takes an exception, and what it ends with
handler(kind) ==
    CASE kind \in {"RequestError", "HTTPStatusError"} -> "continue"
      [] kind \in {"KeyError", "IndexError"} -> "break"
      [] OTHER -> "break"

ProcessInit ==
    /\ state = InitialState(DefaultConfig)
    /\ last = [action |-> NotAnAction, prev |-> state]
    /\ SystemAtRest

\* process(text) is called; it returns text at once without an API key
ProcessCall(key, retries, text) ==
    /\ pure = NoCall
    /\ pure' = [fn |-> "process", OPENAI_API_KEY |-> key,
                LLM_MAX_RETRIES |-> retries, text |-> text,
                attempts |-> <<>>,
                pc |-> IF key THEN "for" ELSE "returned",
                result |-> text]
    /\ UNCHANGED <<state, last, sync_mode, shown, speech, stack, workers, idle, copied, saved,
                   raised, store_vars>>

\* one pass of `for attempt in range(LLM_MAX_RETRIES)`
ProcessAttempt(a) ==
    /\ pure # NoCall
    /\ pure.pc = "for"
    /\ Len(pure.attempts) < pure.LLM_MAX_RETRIES
    /\ pure' = [pure EXCEPT
                  !.attempts = Append(@, a),
                  !.pc = IF a.kind = "Answer" THEN "returned"
                         ELSE IF handler(a.kind) = "continue" THEN "for"
                         ELSE IF handler(a.kind) = "break" THEN "fallback"
                         ELSE "raised",
                  !.result = IF a.kind = "Answer" THEN Strip(a.content) ELSE @]
    /\ UNCHANGED <<state, last, sync_mode, shown, speech, stack, workers, idle, copied, saved,
                   raised, store_vars>>

\* the loop is over (range exhausted, or break): return text
ProcessFallback ==
    /\ pure # NoCall
    /\ \/ pure.pc = "fallback"
       \/ pure.pc = "for" /\ Len(pure.attempts) >= pure.LLM_MAX_RETRIES
    /\ pure' = [pure EXCEPT !.pc = "returned", !.result = pure.text]
    /\ UNCHANGED <<state, last, sync_mode, shown, speech, stack, workers, idle, copied, saved,
                   raised, store_vars>>

ProcessNext ==
    \/ \E key \in BOOLEAN, retries \in 0..MaxRetries, text \in ProcessTexts :
          ProcessCall(key, retries, text)
    \/ \E a \in Attempts : ProcessAttempt(a)
    \/ ProcessFallback

ProcessSpec == ProcessInit /\ [][ProcessNext]_vars

\* the attempts of the call before the last one
Earlier == SubSeq(pure.attempts, 1, Len(pure.attempts) - 1)

\* the call got an answer
Answered ==
    pure.attempts # <<>> /\ pure.attempts[Len(pure.attempts)].kind = "Answer"

\* C40: process never raises and returns a string: it makes at most
\* LLM_MAX_RETRIES HTTP attempts, and none without an API key; every attempt
\* but the last ended with a request or HTTP-status error, so it stops at the
\* first answer and at the first other error; it returns the stripped
\* content of the answer when an attempt succeeded and the input text,
\* unchanged, in every other case.
C40_ProcessNeverRaises ==
    pure.fn = "process" =>
        /\ pure.pc # "raised"
        /\ Len(pure.attempts) <= pure.LLM_MAX_RETRIES
        /\ ~pure.OPENAI_API_KEY => (pure.attempts = <<>> /\ pure.pc = "returned")
        /\ \A i \in 1..Len(Earlier) :
              Earlier[i].kind \in {"RequestError", "HTTPStatusError"}
        /\ (Answered \/ (pure.attempts # <<>> /\ handler(pure.attempts[Len(pure.attempts)].kind) = "break"))
              => pure.pc \in {"returned", "fallback"}
        /\ pure.pc = "returned" =>
              pure.result = IF Answered
                            THEN Strip(pure.attempts[Len(pure.attempts)].content)
                            ELSE pure.text

\* C40 witness: with an API key and two attempts allowed the first attempt
\* failed with a request error and the second was answered: process returned
\* the stripped content
C40_Witness ==
    /\ pure.fn = "process"
    /\ pure.OPENAI_API_KEY
    /\ pure.LLM_MAX_RETRIES = 2
    /\ Len(pure.attempts) = 2
    /\ pure.attempts[1].kind = "RequestError"
    /\ pure.attempts[2] = [kind |-> "Answer", content |-> <<" ", "O", "k", "\n">>]
    /\ pure.pc = "returned"
    /\ pure.result = <<"O", "k">>
====
